---- MODULE Spec2Model ----
(***************************************************************************)
(* The attrition computation engine of bda-web (libcompute: normalizeBn,   *)
(* remainingAfterDays, daysToReachFraction, normalizeDestroyedByDay,       *)
(* computeRows, in its current and its older variant) and the page: its    *)
(* rate inference (inferDailyAttritionPct), the editing operations on day  *)
(* and rows, the Excel import, and the load, autosave, Save and Restore    *)
(* against the store.                                                      *)
(*                                                                         *)
(* JavaScript numbers are modelled as exact rationals [n, d] (d > 0) plus  *)
(* the three non-finite values NaN (0/0), Infinity (1/0) and -Infinity     *)
(* (-1/0).  Negative zero and binary rounding are not modelled: every      *)
(* arithmetic result is the exact rational.  JavaScript strings are        *)
(* sequences of one-character strings.                                     *)
(***************************************************************************)
EXTENDS Integers, Sequences, FiniteSets, Bags, TLC

VARIABLES
    input,   \* the arguments of the call, drawn by Init; for the page, the
             \* arguments of the last operation
    fn,      \* "" before the call, then the name of the function that ran last
    output   \* the value it returned (or the exception it raised); for the
             \* page, its state and that of its store

vars == <<input, fn, output>>

-----------------------------------------------------------------------------
(* JavaScript numbers *)

Abs(i) == IF i < 0 THEN -i ELSE i

RECURSIVE Gcd(_, _)
Gcd(a, b) == IF b = 0 THEN a ELSE Gcd(b, a % b)

\* the finite number n/d (d # 0), in lowest terms with a positive denominator
Rat(n, d) ==
    LET g == Gcd(Abs(n), Abs(d))
        s == IF d < 0 THEN -1 ELSE 1
    IN  [n |-> (s * n) \div g, d |-> (s * d) \div g]

Int2Num(i) == [n |-> i, d |-> 1]

NaN == [n |-> 0, d |-> 0]

Infinity == [n |-> 1, d |-> 0]

NegInfinity == [n |-> -1, d |-> 0]

IsNaN(x) == x.n = 0 /\ x.d = 0

\* Number.isFinite
NumberIsFinite(x) == x.d > 0

Sign(x) == IF x.n > 0 THEN 1 ELSE IF x.n < 0 THEN -1 ELSE 0

Neg(x) == [n |-> -x.n, d |-> x.d]

\* x + y
Add(x, y) ==
    IF IsNaN(x) \/ IsNaN(y) THEN NaN
    ELSE IF x.d = 0 /\ y.d = 0 THEN (IF x.n = y.n THEN x ELSE NaN)
    ELSE IF x.d = 0 THEN x
    ELSE IF y.d = 0 THEN y
    ELSE LET g == Gcd(x.d, y.d)
         IN  Rat(x.n * (y.d \div g) + y.n * (x.d \div g), (x.d \div g) * y.d)

\* x - y
Sub(x, y) == Add(x, Neg(y))

\* x * y
Mul(x, y) ==
    IF IsNaN(x) \/ IsNaN(y) THEN NaN
    ELSE IF x.d = 0 \/ y.d = 0
         THEN (IF Sign(x) * Sign(y) = 0 THEN NaN ELSE [n |-> Sign(x) * Sign(y), d |-> 0])
    ELSE LET g == Gcd(Abs(x.n), y.d)
             h == Gcd(Abs(y.n), x.d)
         IN  Rat((x.n \div g) * (y.n \div h), (x.d \div h) * (y.d \div g))

\* x / y
Div(x, y) ==
    IF IsNaN(x) \/ IsNaN(y) THEN NaN
    ELSE IF x.d = 0 /\ y.d = 0 THEN NaN
    ELSE IF x.d = 0 THEN [n |-> x.n * (IF y.n < 0 THEN -1 ELSE 1), d |-> 0]
    ELSE IF y.d = 0 THEN Int2Num(0)
    ELSE IF y.n = 0 THEN (IF x.n = 0 THEN NaN ELSE [n |-> Sign(x), d |-> 0])
    ELSE LET g == Gcd(Abs(x.n), Abs(y.n))
             h == Gcd(x.d, y.d)
         IN  Rat((x.n \div g) * (y.d \div h), (x.d \div h) * (y.n \div g))

\* x < y (false when either side is NaN)
Lt(x, y) ==
    /\ ~IsNaN(x)
    /\ ~IsNaN(y)
    /\ IF x.d > 0 /\ y.d > 0
       THEN LET g == Gcd(x.d, y.d)
            IN  x.n * (y.d \div g) < y.n * (x.d \div g)
       ELSE (IF x.d = 0 THEN x.n ELSE 0) < (IF y.d = 0 THEN y.n ELSE 0)

\* x <= y
Le(x, y) == ~IsNaN(x) /\ ~IsNaN(y) /\ ~Lt(y, x)

\* x > y
Gt(x, y) == Lt(y, x)

\* x >= y
Ge(x, y) == Le(y, x)

MathFloor(x) == IF x.d = 0 THEN x ELSE Int2Num(x.n \div x.d)

MathCeil(x) == Neg(MathFloor(Neg(x)))

\* Math.round: to the nearest integer, a tie going up
MathRound(x) == MathFloor(Add(x, Rat(1, 2)))

MathMax(x, y) == IF IsNaN(x) \/ IsNaN(y) THEN NaN ELSE IF Lt(x, y) THEN y ELSE x

MathMin(x, y) == IF IsNaN(x) \/ IsNaN(y) THEN NaN ELSE IF Lt(y, x) THEN y ELSE x

IsInteger(x) == x.d = 1

RECURSIVE IntPow(_, _)
IntPow(b, k) == IF k = 0 THEN Int2Num(1) ELSE Mul(b, IntPow(b, k - 1))

\* i^k of whole numbers
RECURSIVE IPow(_, _)
IPow(i, k) == IF k = 0 THEN 1 ELSE i * IPow(i, k - 1)

\* the largest i >= 0 with i^k <= m (m >= 0, k >= 1)
RECURSIVE IRoot(_, _, _)
IRoot(m, k, i) == IF IPow(i + 1, k) > m THEN i ELSE IRoot(m, k, i + 1)

\* the k-th root of b >= 0, rn and rd being the whole roots of its numerator
\* and denominator: rn/rd when that is exact, otherwise NaN
ExactRoot(b, k, rn, rd) ==
    IF IPow(rn, k) = b.n /\ IPow(rd, k) = b.d THEN Rat(rn, rd) ELSE NaN

\* Math.pow(b, e) for a finite b >= 0 and an exponent e that is a whole number
\* k >= 0 (repeated multiplication) or a unit fraction 1/k (the k-th root).
\* A root is exact when b is the k-th power of a rational; otherwise it is
\* outside the modelled domain of Math.pow and the result is NaN.
MathPow(b, e) ==
    IF ~NumberIsFinite(b) \/ ~NumberIsFinite(e) \/ b.n < 0 \/ e.n < 0 THEN NaN
    ELSE IF e.d = 1 THEN IntPow(b, e.n)
    ELSE IF e.n = 1 THEN ExactRoot(b, e.d, IRoot(b.n, e.d, 0), IRoot(b.d, e.d, 0))
    ELSE NaN

\* ln(p) * 10^8, rounded, for the primes the model's inputs factor into
LnPrime ==
    2 :> 69314718 @@ 3 :> 109861229 @@ 5 :> 160943791 @@ 7 :> 194591015 @@
    11 :> 239789527 @@ 13 :> 256494936 @@ 17 :> 283321334 @@ 19 :> 294443898 @@
    23 :> 313549422 @@ 29 :> 336729583 @@ 31 :> 343398720 @@ 37 :> 361091791 @@
    41 :> 371357207 @@ 43 :> 376120012 @@ 47 :> 385014760 @@ 53 :> 397029191 @@
    59 :> 407753744

\* ln(k) * 10^8 of a whole number k >= 1, as the sum over its prime factors
RECURSIVE LnInt(_)
LnInt(k) ==
    IF k = 1 THEN 0
    ELSE LET p == CHOOSE q \in DOMAIN LnPrime : k % q = 0
         IN  LnPrime[p] + LnInt(k \div p)

\* Math.log, to eight decimal places
MathLog(x) ==
    IF IsNaN(x) \/ x.n < 0 THEN NaN
    ELSE IF x.d = 0 THEN Infinity
    ELSE IF x.n = 0 THEN NegInfinity
    ELSE Rat(LnInt(x.n) - LnInt(x.d), 100000000)

-----------------------------------------------------------------------------
(* JavaScript strings: sequences of one-character strings *)

WhiteSpace == {" ", "\t"}

LowerCase == <<"a","b","c","d","e","f","g","h","i","j","k","l","m",
               "n","o","p","q","r","s","t","u","v","w","x","y","z">>

UpperCase == <<"A","B","C","D","E","F","G","H","I","J","K","L","M",
               "N","O","P","Q","R","S","T","U","V","W","X","Y","Z">>

DigitChars == <<"0","1","2","3","4","5","6","7","8","9">>

Range(seq) == {seq[i] : i \in DOMAIN seq}

IndexOf(seq, c) == IF \E i \in DOMAIN seq : seq[i] = c
                   THEN CHOOSE i \in DOMAIN seq : seq[i] = c
                   ELSE 0

\* String.prototype.trim
RECURSIVE Trim(_)
Trim(s) ==
    IF s = <<>> THEN s
    ELSE IF Head(s) \in WhiteSpace THEN Trim(Tail(s))
    ELSE IF s[Len(s)] \in WhiteSpace THEN Trim(SubSeq(s, 1, Len(s) - 1))
    ELSE s

\* the upper-case form of each lower-case letter
LowerToUpper == [c \in {LowerCase[i] : i \in DOMAIN LowerCase} |-> UpperCase[IndexOf(LowerCase, c)]]

\* String.prototype.toUpperCase
ToUpperCase(s) ==
    [i \in DOMAIN s |-> IF s[i] \in DOMAIN LowerToUpper THEN LowerToUpper[s[i]] ELSE s[i]]

\* s.replace(/\s+/g, " ")
RECURSIVE CollapseWhiteSpace(_)
CollapseWhiteSpace(s) ==
    IF s = <<>> THEN s
    ELSE IF Head(s) \in WhiteSpace
         THEN IF Len(s) > 1 /\ s[2] \in WhiteSpace
              THEN CollapseWhiteSpace(Tail(s))
              ELSE <<" ">> \o CollapseWhiteSpace(Tail(s))
    ELSE <<Head(s)>> \o CollapseWhiteSpace(Tail(s))

\* the value of a run of decimal digits
RECURSIVE DigitsValue(_)
DigitsValue(s) ==
    IF s = <<>> THEN 0
    ELSE 10 * DigitsValue(SubSeq(s, 1, Len(s) - 1)) + (IndexOf(DigitChars, s[Len(s)]) - 1)

\* the decimal digits of a whole number i >= 0
RECURSIVE IntDigits(_)
IntDigits(i) ==
    IF i < 10 THEN <<DigitChars[i + 1]>>
    ELSE IntDigits(i \div 10) \o <<DigitChars[(i % 10) + 1]>>

\* the digits after the decimal point of r/d (0 <= r < d), while they last
RECURSIVE FracDigits(_, _)
FracDigits(r, d) ==
    IF r = 0 THEN <<>>
    ELSE <<DigitChars[((10 * r) \div d) + 1]>> \o FracDigits((10 * r) % d, d)

\* the number written as the digits ip, a point and the digits fp, negated
\* when neg; NaN when there is no digit or another character
DecimalToNumber(neg, ip, fp) ==
    IF /\ \A i \in DOMAIN ip : ip[i] \in Range(DigitChars)
       /\ \A i \in DOMAIN fp : fp[i] \in Range(DigitChars)
       /\ Len(ip) + Len(fp) > 0
    THEN Rat((IF neg THEN -1 ELSE 1) * (DigitsValue(ip) * IPow(10, Len(fp)) + DigitsValue(fp)),
             IPow(10, Len(fp)))
    ELSE NaN

\* the unsigned part body of a numeric string, split at its decimal point (at
\* index dot, 0 when there is none)
SplitAtPoint(neg, body, dot) ==
    IF dot = 0
    THEN DecimalToNumber(neg, body, <<>>)
    ELSE DecimalToNumber(neg, SubSeq(body, 1, dot - 1), SubSeq(body, dot + 1, Len(body)))

\* a trimmed string t as a number
TrimmedToNumber(t) ==
    IF t = <<>> THEN Int2Num(0)
    ELSE IF Head(t) \in {"-", "+"}
         THEN SplitAtPoint(Head(t) = "-", Tail(t), IndexOf(Tail(t), "."))
         ELSE SplitAtPoint(FALSE, t, IndexOf(t, "."))

\* Number(string): optional sign, decimal digits with at most one point;
\* the empty or all-blank string is 0, anything else is NaN
StringToNumber(s) == TrimmedToNumber(Trim(s))

\* String(number), for NaN, the infinities and numbers with a finite decimal expansion
NumberToString(x) ==
    IF IsNaN(x) THEN <<"N","a","N">>
    ELSE IF x.d = 0
         THEN (IF x.n < 0 THEN <<"-">> ELSE <<>>) \o <<"I","n","f","i","n","i","t","y">>
    ELSE LET a == Abs(x.n)
             f == FracDigits(a % x.d, x.d)
         IN  (IF x.n < 0 THEN <<"-">> ELSE <<>>)
             \o IntDigits(a \div x.d)
             \o (IF f = <<>> THEN <<>> ELSE <<".">> \o f)

-----------------------------------------------------------------------------
(* JavaScript values: undefined, null, booleans, numbers, strings, arrays *)

JUndefined == [t |-> "undefined", num |-> NaN, str |-> <<>>, arr |-> <<>>]

JNull == [t |-> "null", num |-> NaN, str |-> <<>>, arr |-> <<>>]

JBool(b) == [t |-> "boolean", num |-> Int2Num(IF b THEN 1 ELSE 0), str |-> <<>>, arr |-> <<>>]

JNum(x) == [t |-> "number", num |-> x, str |-> <<>>, arr |-> <<>>]

JInt(i) == JNum(Int2Num(i))

JStr(s) == [t |-> "string", num |-> NaN, str |-> s, arr |-> <<>>]

JArr(a) == [t |-> "array", num |-> NaN, str |-> <<>>, arr |-> a]

\* v ?? dflt
Coalesce(v, dflt) == IF v.t \in {"undefined", "null"} THEN dflt ELSE v

\* the truthiness of v (Boolean(v))
Truthy(v) ==
    CASE v.t \in {"undefined", "null"} -> FALSE
      [] v.t = "boolean" -> v.num.n = 1
      [] v.t = "number"  -> ~IsNaN(v.num) /\ v.num.n # 0
      [] v.t = "string"  -> v.str # <<>>
      [] OTHER           -> TRUE

\* Array.isArray
ArrayIsArray(v) == v.t = "array"

RECURSIVE StringOf(_)
\* String(v); an array is its elements joined by commas, null and undefined
\* elements being empty
StringOf(v) ==
    CASE v.t = "undefined" -> <<"u","n","d","e","f","i","n","e","d">>
      [] v.t = "null"      -> <<"n","u","l","l">>
      [] v.t = "boolean"   -> IF v.num.n = 1 THEN <<"t","r","u","e">> ELSE <<"f","a","l","s","e">>
      [] v.t = "number"    -> NumberToString(v.num)
      [] v.t = "string"    -> v.str
      [] v.t = "array"     ->
            LET el(i) == IF v.arr[i].t \in {"undefined", "null"} THEN <<>> ELSE StringOf(v.arr[i])
                join[i \in 0..Len(v.arr)] ==
                    IF i = 0 THEN <<>>
                    ELSE IF i = 1 THEN el(1)
                    ELSE join[i - 1] \o <<",">> \o el(i)
            IN  join[Len(v.arr)]

\* Number(v)
ToNumber(v) ==
    CASE v.t = "undefined" -> NaN
      [] v.t = "null"      -> Int2Num(0)
      [] v.t = "boolean"   -> v.num
      [] v.t = "number"    -> v.num
      [] OTHER             -> StringToNumber(IF v.t = "string" THEN v.str ELSE StringOf(v))

\* base[i] of a JavaScript array (index from 0): undefined past the end
At(a, i) == IF i + 1 \in DOMAIN a THEN a[i + 1] ELSE JUndefined

-----------------------------------------------------------------------------
(* libcompute: helpers *)

\* Number.MAX_SAFE_INTEGER is 2^53 - 1; the largest integer of the model takes
\* its place as the upper clamp, which no modelled entry reaches
MAX_SAFE_INTEGER == 2147483647

BCG_165_BNS ==
    { <<"1","6","5","1">>, <<"1","6","5","2">>, <<"1","6","5","3">>, <<"1","6","5","4">>,
      <<"1","6","5","7">>, <<"1","6","5","8">>, <<"1","6","5","9">> }

OS_SS == <<"O","S","/","S","S">>

OS_SS_ALIASES ==
    { OS_SS,
      <<"O","S","S","S">>,
      <<"O","S","-","S","S">>,
      <<"O","S"," ","&"," ","S","S">>,
      <<"O","S"," ","A","N","D"," ","S","S">> }

\* if (OS_SS_ALIASES.has(s)) return "OS/SS"; return s
canonicalBn(s) == IF s \in OS_SS_ALIASES THEN OS_SS ELSE s

normalizeBn(raw) ==
    canonicalBn(CollapseWhiteSpace(ToUpperCase(Trim(StringOf(Coalesce(raw, JStr(<<>>)))))))

\* the group of a canonical unit identifier
groupOfBn(bn) ==
    IF bn = OS_SS THEN "165_BCG"
    ELSE IF bn \in BCG_165_BNS THEN "165_BCG"
    ELSE "OTHER"

groupForBn(rawBn) == groupOfBn(normalizeBn(rawBn))

\* clamp without its upper limit
clampFromBelow(n, min, max) == MathMax(min, n)

clamp(n, min, max) == MathMax(min, MathMin(max, n))

\* Number.isFinite(n) ? n : 0
finiteOrZero(n) == IF NumberIsFinite(n) THEN n ELSE Int2Num(0)

safeNum(v) == finiteOrZero(ToNumber(v))

\* decay compounding a gain of p a day instead of a loss
decayGrowing(start, p, d) ==
    IF Le(start, Int2Num(0)) THEN Int2Num(0)
    ELSE IF Le(p, Int2Num(0)) THEN start
    ELSE IF Ge(p, Int2Num(1)) THEN Int2Num(0)
    ELSE Mul(start, MathPow(Add(Int2Num(1), p), d))

\* decay raising the survival fraction to one day too many
decayOffByOne(start, p, d) ==
    IF Le(start, Int2Num(0)) THEN Int2Num(0)
    ELSE IF Le(p, Int2Num(0)) THEN start
    ELSE IF Ge(p, Int2Num(1)) THEN Int2Num(0)
    ELSE Mul(start, MathPow(Sub(Int2Num(1), p), Add(d, Int2Num(1))))

\* the body of remainingAfterDays once p (the rate as a fraction) and d (the
\* whole days elapsed) are computed
decay(start, p, d) ==
    IF Le(start, Int2Num(0)) THEN Int2Num(0)
    ELSE IF Le(p, Int2Num(0)) THEN start
    ELSE IF Ge(p, Int2Num(1)) THEN Int2Num(0)
    ELSE Mul(start, MathPow(Sub(Int2Num(1), p), d))

\* start is a number; dailyPct and day are values safeNum coerces
remainingAfterDays(start, dailyPct, day) ==
    decay(start,
          Div(safeNum(dailyPct), Int2Num(100)),
          MathMax(Int2Num(0), MathFloor(safeNum(day))))

\* wholeDays rounding the day count down instead of up
wholeDaysFloor(d) ==
    IF ~NumberIsFinite(d) \/ Lt(d, Int2Num(0)) THEN JNull ELSE JNum(MathFloor(d))

\* if (!Number.isFinite(d) || d < 0) return null; return Math.ceil(d)
wholeDays(d) ==
    IF ~NumberIsFinite(d) \/ Lt(d, Int2Num(0)) THEN JNull ELSE JNum(MathCeil(d))

\* daysAtRate testing the rate before the target fraction
daysAtRateRateFirst(p, targetFraction) ==
    IF Le(p, Int2Num(0)) THEN JNull
    ELSE IF Ge(p, Int2Num(1)) THEN JInt(0)
    ELSE IF Le(targetFraction, Int2Num(0)) THEN JInt(0)
    ELSE IF Ge(targetFraction, Int2Num(1)) THEN JNull
    ELSE wholeDays(Div(MathLog(targetFraction), MathLog(Sub(Int2Num(1), p))))

\* the body of daysToReachFraction once p (the rate as a fraction) is computed
daysAtRate(p, targetFraction) ==
    IF Le(targetFraction, Int2Num(0)) THEN JInt(0)
    ELSE IF Ge(targetFraction, Int2Num(1)) THEN JNull
    ELSE IF Le(p, Int2Num(0)) THEN JNull
    ELSE IF Ge(p, Int2Num(1)) THEN JInt(0)
    ELSE wholeDays(Div(MathLog(targetFraction), MathLog(Sub(Int2Num(1), p))))

\* the result is a number value or null
daysToReachFraction(dailyPct, targetFraction) ==
    daysAtRate(Div(safeNum(dailyPct), Int2Num(100)), targetFraction)

normalizeDestroyedByDay(arr) ==
    LET base == IF ArrayIsArray(arr) THEN arr.arr ELSE <<>>
    IN  [i \in 1..5 |->
            clamp(MathRound(safeNum(At(base, i - 1))), Int2Num(0), Int2Num(MAX_SAFE_INTEGER))]

\* seq.reduce((s, v) => s + v, 0)
RECURSIVE SumNum(_)
SumNum(seq) == IF seq = <<>> THEN Int2Num(0) ELSE Add(SumNum(SubSeq(seq, 1, Len(seq) - 1)), seq[Len(seq)])

\* the fraction 0.25 of on-hand that daysTo25Pct projects to
Quarter == Rat(1, 4)

-----------------------------------------------------------------------------
(* libcompute: computeRows *)

\* opts?.field: opts is [given, day, useAttrition, manualWins]
OptDay(opts) == IF opts.given THEN opts.day ELSE JUndefined

OptUseAttrition(opts) == IF opts.given THEN opts.useAttrition ELSE JUndefined

OptManualWins(opts) == IF opts.given THEN opts.manualWins ELSE JUndefined

\* selectedDay without the clamp to [1, 5]
selectedDayUnclamped(opts) == MathFloor(safeNum(Coalesce(OptDay(opts), JInt(1))))

\* const day = clamp(Math.floor(safeNum(opts?.day ?? 1)), 1, 5)
selectedDay(opts) ==
    clamp(MathFloor(safeNum(Coalesce(OptDay(opts), JInt(1)))), Int2Num(1), Int2Num(5))

useAttritionOf(opts) == Truthy(Coalesce(OptUseAttrition(opts), JBool(TRUE)))

manualWinsOf(opts) == Truthy(Coalesce(OptManualWins(opts), JBool(TRUE)))

\* onHandOf accepting a negative on-hand count
onHandOfSigned(row) == MathFloor(safeNum(row.onHand))

\* const onHand = Math.max(0, Math.floor(safeNum(row.onHand)))
onHandOf(row) == MathMax(Int2Num(0), MathFloor(safeNum(row.onHand)))

\* reconcile taking the smaller of the two losses under manual-wins
reconcileMin(manual, destroyedAttrition, useAttrition, manualWins) ==
    IF useAttrition
    THEN (IF manualWins THEN MathMin(manual, destroyedAttrition) ELSE destroyedAttrition)
    ELSE manual

\* const destroyed = useAttrition ? (manualWins ? max : attrition) : manual
reconcile(manual, destroyedAttrition, useAttrition, manualWins) ==
    IF useAttrition
    THEN (IF manualWins THEN MathMax(manual, destroyedAttrition) ELSE destroyedAttrition)
    ELSE manual

\* manualFromDaily counting all five days as active, whatever the selected day
manualFromDailyAllDays(byDay, day) == [total |-> SumNum(byDay), active |-> SumNum(byDay)]

\* the manual losses of a row with a daily-loss array byDay (normalized):
\* total is the sum of D1..D5, active the sum through the selected day
manualFromDaily(byDay, day) ==
    [total |-> SumNum(byDay), active |-> SumNum(SubSeq(byDay, 1, day.n))]

\* the manual losses of a row with the legacy single value only
manualFromLegacy(destroyedManual) == [total |-> destroyedManual, active |-> destroyedManual]

\* destroyedManualTotal and destroyedManualActive, before they are clamped
manualLosses(row, day) ==
    IF Truthy(row.destroyedByDay) /\ ArrayIsArray(row.destroyedByDay)
    THEN manualFromDaily(normalizeDestroyedByDay(row.destroyedByDay), day)
    ELSE manualFromLegacy(
             MathMax(Int2Num(0), MathFloor(safeNum(Coalesce(row.destroyedManual, JInt(0))))))

\* destroyedAttritionOf flooring the modelled loss instead of rounding it
destroyedAttritionFloor(row, onHand, day, useAttrition) ==
    IF useAttrition
    THEN clamp(MathFloor(Sub(onHand, remainingAfterDays(onHand, row.dailyAttritionPct, JNum(day)))),
               Int2Num(0), onHand)
    ELSE Int2Num(0)

\* let destroyedAttrition = 0; if (useAttrition) { ... }
destroyedAttritionOf(row, onHand, day, useAttrition) ==
    IF useAttrition
    THEN clamp(MathRound(Sub(onHand, remainingAfterDays(onHand, row.dailyAttritionPct, JNum(day)))),
               Int2Num(0), onHand)
    ELSE Int2Num(0)

\* combatPowerOf as a fraction of 1 instead of a percentage
combatPowerFraction(onHand, remaining) ==
    IF Gt(onHand, Int2Num(0)) THEN Div(remaining, onHand) ELSE Int2Num(0)

\* const combatPowerPct = onHand > 0 ? (remaining / onHand) * 100 : 0
combatPowerOf(onHand, remaining) ==
    IF Gt(onHand, Int2Num(0)) THEN Mul(Div(remaining, onHand), Int2Num(100)) ELSE Int2Num(0)

\* the ComputedRow returned by the body of rows.map, its bn still as supplied
rowResult(row, onHand, manual, manualTotal, destroyedAttrition, destroyed, remaining) ==
    [ id                    |-> row.id,
      bn                    |-> row.bn,
      equipmentType         |-> row.equipmentType,
      dailyAttritionPct     |-> row.dailyAttritionPct,
      destroyedByDay        |-> row.destroyedByDay,
      onHand                |-> onHand,
      destroyedManual       |-> manual,
      destroyedAttrition    |-> destroyedAttrition,
      destroyed             |-> destroyed,
      remaining             |-> remaining,
      combatPowerPct        |-> combatPowerOf(onHand, remaining),
      daysTo25Pct           |-> IF Gt(onHand, Int2Num(0))
                                THEN daysToReachFraction(row.dailyAttritionPct, Quarter)
                                ELSE JNull,
      destroyedManualActive |-> manual,
      destroyedManualTotal  |-> manualTotal ]

\* from the final destroyed count on: const remaining = Math.max(0, onHand - destroyed)
rowDestroyed(row, onHand, manual, manualTotal, destroyedAttrition, destroyed) ==
    rowResult(row, onHand, manual, manualTotal, destroyedAttrition, destroyed,
              MathMax(Int2Num(0), Sub(onHand, destroyed)))

\* from the clamped manual loss and the modelled loss on: the reconciliation
rowLosses(row, onHand, manual, manualTotal, destroyedAttrition, useAttrition, manualWins) ==
    rowDestroyed(row, onHand, manual, manualTotal, destroyedAttrition,
                 reconcile(manual, destroyedAttrition, useAttrition, manualWins))

\* from on-hand and the manual losses m on: const manual = clamp(destroyedManualActive, 0, onHand)
rowOnHand(row, onHand, m, day, useAttrition, manualWins) ==
    rowLosses(row, onHand,
              clamp(m.active, Int2Num(0), onHand),
              clamp(m.total, Int2Num(0), onHand),
              destroyedAttritionOf(row, onHand, day, useAttrition),
              useAttrition, manualWins)

\* the body of rows.map: one ComputedRow, its bn still as supplied
computedRow(row, day, useAttrition, manualWins) ==
    rowOnHand(row, onHandOf(row), manualLosses(row, day), day, useAttrition, manualWins)

\* the keys of a Map filled in the order of seq: each key once, at its first place
RECURSIVE MapKeys(_)
MapKeys(seq) ==
    IF seq = <<>> THEN <<>>
    ELSE LET before == MapKeys(SubSeq(seq, 1, Len(seq) - 1))
             k      == seq[Len(seq)]
         IN  IF \E i \in DOMAIN before : before[i] = k THEN before ELSE Append(before, k)

\* the primary collation order of the characters of the model (whitespace,
\* punctuation, digits, letters), as localeCompare orders them
Collation ==
    <<"\t", " ", "_", "-", ",", ".", "/", "&",
      "0","1","2","3","4","5","6","7","8","9",
      "A","B","C","D","E","F","G","H","I","J","K","L","M",
      "N","O","P","Q","R","S","T","U","V","W","X","Y","Z">>

\* a.localeCompare(b) < 0, on the primary order of the upper-cased strings,
\* a lower-case letter coming before its upper-case form when all else is equal
RECURSIVE PrimaryBefore(_, _)
PrimaryBefore(a, b) ==
    IF a = <<>> THEN b # <<>>
    ELSE IF b = <<>> THEN FALSE
    ELSE LET x == IndexOf(Collation, Head(a))
             y == IndexOf(Collation, Head(b))
         IN  IF x # y THEN x < y ELSE PrimaryBefore(Tail(a), Tail(b))

RECURSIVE CaseBefore(_, _)
CaseBefore(a, b) ==
    IF a = <<>> \/ b = <<>> THEN FALSE
    ELSE IF Head(a) # Head(b) THEN IndexOf(LowerCase, Head(a)) > 0
    ELSE CaseBefore(Tail(a), Tail(b))

LocaleBefore(a, b) ==
    LET ua == ToUpperCase(a)
        ub == ToUpperCase(b)
    IN  IF ua # ub THEN PrimaryBefore(ua, ub) ELSE CaseBefore(a, b)

\* SortByBn leaving the summaries in the Map's order
SortByBnUnsorted(seq) == seq

\* summaries.sort((a, b) => a.bn.localeCompare(b.bn)): a stable insertion sort
RECURSIVE SortByBn(_)
SortByBn(seq) ==
    IF seq = <<>> THEN <<>>
    ELSE LET sorted == SortByBn(SubSeq(seq, 1, Len(seq) - 1))
             x      == seq[Len(seq)]
             k      == Cardinality({i \in DOMAIN sorted : ~LocaleBefore(x.bn, sorted[i].bn)})
         IN  SubSeq(sorted, 1, k) \o <<x>> \o SubSeq(sorted, k + 1, Len(sorted))

\* totalWeight > 0 ? sum / totalWeight : 0
ratioOrZero(sum, totalWeight) ==
    IF Gt(totalWeight, Int2Num(0)) THEN Div(sum, totalWeight) ELSE Int2Num(0)

\* weightedAttritionOf taking the plain mean of the rates, whatever the on-hand
weightedAttritionUnweighted(rs) ==
    ratioOrZero(SumNum([i \in DOMAIN rs |-> safeNum(rs[i].dailyAttritionPct)]),
                Int2Num(Len(rs)))

\* Sum(rate_i * onHand_i) / Sum(onHand_i) over rs, 0 when the weights sum to 0
weightedAttritionOf(rs) ==
    ratioOrZero(SumNum([i \in DOMAIN rs |-> Mul(safeNum(rs[i].dailyAttritionPct), rs[i].onHand)]),
                SumNum([i \in DOMAIN rs |-> rs[i].onHand]))

\* a summary from its sums and its weighted rate: the combat power and the projection
summaryOf(onHand, remaining, destroyed, weightedAttrition) ==
    [ onHand         |-> onHand,
      remaining      |-> remaining,
      destroyed      |-> destroyed,
      combatPowerPct |-> IF Gt(onHand, Int2Num(0))
                         THEN Mul(Div(remaining, onHand), Int2Num(100))
                         ELSE Int2Num(0),
      daysTo25Pct    |-> IF Gt(onHand, Int2Num(0))
                         THEN daysToReachFraction(JNum(weightedAttrition), Quarter)
                         ELSE JNull ]

\* rollup keeping the last row's figures instead of adding the rows up
rollupLastRow(rs) ==
    IF rs = <<>>
    THEN summaryOf(Int2Num(0), Int2Num(0), Int2Num(0), Int2Num(0))
    ELSE summaryOf(rs[Len(rs)].onHand, rs[Len(rs)].remaining, rs[Len(rs)].destroyed,
                   weightedAttritionOf(rs))

\* the summary of the rows rs of one unit or group
rollup(rs) ==
    summaryOf(SumNum([i \in DOMAIN rs |-> rs[i].onHand]),
              SumNum([i \in DOMAIN rs |-> rs[i].remaining]),
              SumNum([i \in DOMAIN rs |-> rs[i].destroyed]),
              weightedAttritionOf(rs))

\* the Unit Summary of key: the rollup of the rows rs, those keyed key
bnSummaryOf(key, rs) == [bn |-> key] @@ rollup(rs)

\* the Group Summary of g
groupSummaryOf(g, computedRows) ==
    [group |-> g] @@ rollup(SelectSeq(computedRows, LAMBDA r : groupForBn(r.bn) = g))

\* rows.map(...), the returned bn being normalizeBn(row.bn)
computedRowsOf(rows, day, useAttrition, manualWins) ==
    [i \in DOMAIN rows |->
        [computedRow(rows[i], day, useAttrition, manualWins)
            EXCEPT !.bn = JStr(normalizeBn(rows[i].bn))]]

\* the Unit Summaries of the keys, in the Map's order
bnSummariesOf(keys, computedRows) ==
    [i \in DOMAIN keys |->
        bnSummaryOf(keys[i], SelectSeq(computedRows, LAMBDA r : normalizeBn(r.bn) = keys[i]))]

\* bnKeysOf keeping a key for every row, repeated identifiers included
bnKeysOfRepeated(computedRows) ==
    SelectSeq([i \in DOMAIN computedRows |-> normalizeBn(computedRows[i].bn)],
              LAMBDA k : k # <<>>)

\* the keys of bnMap: the rows' canonical bn, the empty one skipped
bnKeysOf(computedRows) ==
    SelectSeq(MapKeys([i \in DOMAIN computedRows |-> normalizeBn(computedRows[i].bn)]),
              LAMBDA k : k # <<>>)

\* the rollups and the returned value; "165_BCG" sorts before "OTHER"
resultOf(computedRows, day) ==
    [ threw          |-> FALSE,
      computedRows   |-> computedRows,
      bnSummaries    |-> SortByBn(bnSummariesOf(bnKeysOf(computedRows), computedRows)),
      groupSummaries |-> <<groupSummaryOf("165_BCG", computedRows),
                           groupSummaryOf("OTHER", computedRows)>>,
      day            |-> day ]

\* computeRows from the selected day on
computeRowsAt(rows, opts, day) ==
    resultOf(computedRowsOf(rows, day, useAttritionOf(opts), manualWinsOf(opts)), day)

\* the value computeRows returns
computeRows(rows, opts) == computeRowsAt(rows, opts, selectedDay(opts))

\* (r.bn || "").trim() of the older variant: a TypeError when r.bn is truthy
\* and no string
oldKeyThrows(r) == Truthy(r.bn) /\ r.bn.t # "string"

oldKeyOf(r) == IF Truthy(r.bn) THEN Trim(r.bn.str) ELSE <<>>

\* the older variant's rows.map: bn is returned as supplied
computedRowsOld(rows, day, useAttrition, manualWins) ==
    [i \in DOMAIN rows |-> computedRow(rows[i], day, useAttrition, manualWins)]

bnSummariesOld(keys, computedRows) ==
    [i \in DOMAIN keys |->
        bnSummaryOf(keys[i], SelectSeq(computedRows, LAMBDA r : oldKeyOf(r) = keys[i]))]

bnKeysOld(computedRows) ==
    SelectSeq(MapKeys([i \in DOMAIN computedRows |-> oldKeyOf(computedRows[i])]),
              LAMBDA k : k # <<>>)

\* the older variant's rollup and returned value: no Group Summaries
resultOld(computedRows, day) ==
    IF \E i \in DOMAIN computedRows : oldKeyThrows(computedRows[i])
    THEN [ threw |-> TRUE, error |-> "TypeError" ]
    ELSE [ threw        |-> FALSE,
           computedRows |-> computedRows,
           bnSummaries  |-> SortByBn(bnSummariesOld(bnKeysOld(computedRows), computedRows)),
           day          |-> day ]

computeRowsOldAt(rows, opts, day) ==
    resultOld(computedRowsOld(rows, day, useAttritionOf(opts), manualWinsOf(opts)), day)

\* the older variant of computeRows: bn is neither canonicalized nor grouped
computeRowsOld(rows, opts) == computeRowsOldAt(rows, opts, selectedDay(opts))

-----------------------------------------------------------------------------
(* page.tsx: rate inference *)

\* n || 0 of a number n
orZero(n) == IF IsNaN(n) \/ (n.d > 0 /\ n.n = 0) THEN Int2Num(0) ELSE n

\* Number(n) || 0
NumberOrZero(v) == orZero(ToNumber(v))

clampInt(n, min, max) == MathMax(min, MathMin(max, MathFloor(NumberOrZero(n))))

\* the page's own normalizer: Math.max(0, Math.floor(Number(base[i] ?? 0)))
normalizeDestroyedByDayPage(arr) ==
    [i \in 1..5 |->
        MathMax(Int2Num(0),
                MathFloor(ToNumber(Coalesce(At(IF ArrayIsArray(arr) THEN arr.arr ELSE <<>>, i - 1),
                                            JInt(0)))))]

\* rateOfFraction taking the whole loss fraction as the daily rate (no d-th root)
rateOfFractionNoRoot(frac, d) ==
    IF Le(frac, Int2Num(0)) THEN Int2Num(100)
    ELSE IF Ge(frac, Int2Num(1)) THEN Int2Num(0)
    ELSE MathMax(Int2Num(0),
                 MathMin(Int2Num(100), Mul(Sub(Int2Num(1), frac), Int2Num(100))))

\* from frac = remaining / oh on: the d-th root and the clamp to [0, 100]
rateOfFraction(frac, d) ==
    IF Le(frac, Int2Num(0)) THEN Int2Num(100)
    ELSE IF Ge(frac, Int2Num(1)) THEN Int2Num(0)
    ELSE MathMax(Int2Num(0),
                 MathMin(Int2Num(100),
                         Mul(Sub(Int2Num(1), MathPow(frac, Div(Int2Num(1), d))), Int2Num(100))))

\* from oh, d and the normalized daily losses on
rateOfLosses(oh, d, byDay) ==
    IF Le(oh, Int2Num(0)) THEN Int2Num(0)
    ELSE rateOfFraction(
             Div(MathMax(Int2Num(0), Sub(oh, SumNum(SubSeq(byDay, 1, d.n)))), oh), d)

inferDailyAttritionPct(onHand, destroyedByDay, day) ==
    rateOfLosses(MathMax(Int2Num(0), MathFloor(NumberOrZero(onHand))),
                 clampInt(day, Int2Num(1), Int2Num(5)),
                 normalizeDestroyedByDayPage(destroyedByDay))

-----------------------------------------------------------------------------
(* Inputs *)

\* attrition rates: in range, out of range, fractional, absent, non-numeric, non-finite
RateValues ==
    { JInt(-10), JInt(0), JInt(10), JInt(20), JInt(25), JInt(50), JInt(60), JInt(75),
      JInt(90), JInt(100), JInt(150), JUndefined, JStr(<<"a","b","c">>), JStr(<<"5","0">>),
      JNum(NaN), JNum(Infinity) }

-----------------------------------------------------------------------------
(* remainingAfterDays applied to drawn arguments *)

MaxStart == 12

MaxDay == 6

StartValues == {Int2Num(i) : i \in (-2..MaxStart) \cup {44, 100}} \cup {Rat(5, 2)}

DayValues == {JInt(i) : i \in -1..MaxDay} \cup {JNum(Rat(5, 2)), JUndefined}

InitRemaining ==
    /\ input \in [start : StartValues, dailyPct : RateValues \cup {JNum(Rat(25, 2))}, day : DayValues]
    /\ fn = ""
    /\ output = <<>>

CallRemainingAfterDays ==
    /\ fn = ""
    /\ fn' = "remainingAfterDays"
    /\ output' = remainingAfterDays(input.start, input.dailyPct, input.day)
    /\ UNCHANGED input

NextRemaining == CallRemainingAfterDays

SpecRemaining == InitRemaining /\ [][NextRemaining]_vars

\* a finite number value
IsFiniteNumber(v) == v.t = "number" /\ NumberIsFinite(v.num)

\* C10: remainingAfterDays gives 0 when start <= 0; otherwise start unchanged
\* when the rate is <= 0 and 0 when the rate is >= 100 (whatever the day, so
\* 100% at day 1 leaves 0 for every on-hand); for start > 0, a rate in
\* [0, 100] and a day in 1..5 the result lies in [0, start]; and
\* remainingAfterDays(100, 50, 2) = 25.
RemainingEdgePolicy ==
    fn = "remainingAfterDays" =>
        LET start == input.start
            pct   == input.dailyPct
        IN  /\ Le(start, Int2Num(0)) => output = Int2Num(0)
            /\ (Gt(start, Int2Num(0)) /\ IsFiniteNumber(pct)) =>
                   /\ Le(pct.num, Int2Num(0)) => output = start
                   /\ Ge(pct.num, Int2Num(100)) => output = Int2Num(0)
                   /\ ( /\ Ge(pct.num, Int2Num(0))
                        /\ Le(pct.num, Int2Num(100))
                        /\ input.day \in {JInt(i) : i \in 1..5} ) =>
                          Ge(output, Int2Num(0)) /\ Le(output, start)
            /\ (start = Int2Num(100) /\ pct = JInt(50) /\ input.day = JInt(2)) =>
                   output = Int2Num(25)

\* remainingAfterDays(100, 50, 2) has returned 25
RemainingExampleReached ==
    /\ fn = "remainingAfterDays"
    /\ input = [start |-> Int2Num(100), dailyPct |-> JInt(50), day |-> JInt(2)]
    /\ output = Int2Num(25)

-----------------------------------------------------------------------------
(* remainingAfterDays applied to one start and rate on two days *)

InitTwoDays ==
    /\ input \in [start : StartValues, dailyPct : RateValues \cup {JNum(Rat(25, 2))},
                  day1 : DayValues, day2 : DayValues]
    /\ fn = ""
    /\ output = <<>>

CallRemainingOnDay1 ==
    /\ fn = ""
    /\ fn' = "remainingAfterDays(day1)"
    /\ output' = [first |-> remainingAfterDays(input.start, input.dailyPct, input.day1)]
    /\ UNCHANGED input

CallRemainingOnDay2 ==
    /\ fn = "remainingAfterDays(day1)"
    /\ fn' = "remainingAfterDays(day2)"
    /\ output' = [first  |-> output.first,
                  second |-> remainingAfterDays(input.start, input.dailyPct, input.day2)]
    /\ UNCHANGED input

NextTwoDays == CallRemainingOnDay1 \/ CallRemainingOnDay2

SpecTwoDays == InitTwoDays /\ [][NextTwoDays]_vars

\* C11: for a fixed start and rate, remainingAfterDays is non-increasing in
\* the day: for every pair of days day1 <= day2 the result on day2 is at
\* most the result on day1.
RemainingNonIncreasingInDay ==
    ( /\ fn = "remainingAfterDays(day2)"
      /\ IsFiniteNumber(input.day1)
      /\ IsFiniteNumber(input.day2)
      /\ Le(input.day1.num, input.day2.num) ) =>
        Le(output.second, output.first)

\* a day later has left strictly less: 100 at 50% leaves 50 on day 1, 25 on day 2
LaterDayLeftLessReached ==
    /\ fn = "remainingAfterDays(day2)"
    /\ input = [start |-> Int2Num(100), dailyPct |-> JInt(50), day1 |-> JInt(1), day2 |-> JInt(2)]
    /\ output = [first |-> Int2Num(50), second |-> Int2Num(25)]

-----------------------------------------------------------------------------
(* daysToReachFraction applied to drawn arguments *)

\* the longest projection drawn: a rate and a target strictly inside their
\* ranges are drawn when the target is reached within MaxCrossing days
MaxCrossing == 8

TargetValues ==
    { Rat(-1, 2), Int2Num(0), Rat(1, 16), Rat(1, 10), Rat(1, 4), Rat(1, 2), Rat(16, 25),
      Rat(4, 5), Rat(9, 10), Int2Num(1), Int2Num(2), NaN }

\* q^k <= t for some k in 0..kmax (0 < q < 1)
RECURSIVE ReachedWithin(_, _, _)
ReachedWithin(q, t, kmax) ==
    IF Le(Int2Num(1), t) THEN TRUE
    ELSE IF kmax = 0 THEN FALSE
    ELSE ReachedWithin(q, Div(t, q), kmax - 1)

\* the rate and the target are strictly inside (0, 100) and (0, 1)
Interior(pct, target) ==
    /\ IsFiniteNumber(pct)
    /\ Gt(pct.num, Int2Num(0))
    /\ Lt(pct.num, Int2Num(100))
    /\ Gt(target, Int2Num(0))
    /\ Lt(target, Int2Num(1))

\* the daily survival fraction 1 - p of a rate in percent
Survival(pct) == Sub(Int2Num(1), Div(pct.num, Int2Num(100)))

InitDays ==
    /\ input \in [dailyPct : RateValues, targetFraction : TargetValues]
    /\ Interior(input.dailyPct, input.targetFraction) =>
           ReachedWithin(Survival(input.dailyPct), input.targetFraction, MaxCrossing)
    /\ fn = ""
    /\ output = <<>>

CallDaysToReachFraction ==
    /\ fn = ""
    /\ fn' = "daysToReachFraction"
    /\ output' = daysToReachFraction(input.dailyPct, input.targetFraction)
    /\ UNCHANGED input

NextDays == CallDaysToReachFraction

SpecDays == InitDays /\ [][NextDays]_vars

DaysEdgeOrder ==
    fn = "daysToReachFraction" =>
        LET pct    == input.dailyPct
            target == input.targetFraction
        IN  /\ target = Int2Num(0) => output = JInt(0)
            /\ (pct = JInt(0) /\ Gt(target, Int2Num(0)) /\ Lt(target, Int2Num(1))) =>
                   output = JNull
            /\ IsFiniteNumber(pct) =>
                   IF Le(target, Int2Num(0)) THEN output = JInt(0)
                   ELSE IF Ge(target, Int2Num(1)) THEN output = JNull
                   ELSE IF Le(pct.num, Int2Num(0)) THEN output = JNull
                   ELSE IF Ge(pct.num, Int2Num(100)) THEN output = JInt(0)
                   ELSE TRUE

\* two edge cases met at once have been decided by the first: target 0 with
\* rate 0 returned 0, and target 1 with rate 100 returned null
DaysEdgeOverlapReached ==
    /\ fn = "daysToReachFraction"
    /\ \/ input = [dailyPct |-> JInt(0), targetFraction |-> Int2Num(0)] /\ output = JInt(0)
       \/ input = [dailyPct |-> JInt(100), targetFraction |-> Int2Num(1)] /\ output = JNull

-----------------------------------------------------------------------------
(* the daily-loss normalizers applied to a drawn value *)

\* arrays of up to MaxShort entries are drawn over every entry value
MaxShort == 2

EntryValues ==
    { JInt(0), JInt(3), JInt(-2), JNum(Rat(5, 2)), JStr(<<"x">>), JStr(<<"7">>),
      JUndefined, JNull, JNum(NaN), JNum(Infinity) }

LongEntryValues == { JInt(3), JStr(<<"x">>) }

DailyLossValues ==
    { JUndefined, JNull, JInt(4), JStr(<<"a","b","c">>) }
    \cup { JArr(a) : a \in UNION { [1..k -> EntryValues] : k \in 0..MaxShort } }
    \cup { JArr(a) : a \in [1..5 -> LongEntryValues] \cup [1..6 -> LongEntryValues] }

InitNormalize ==
    /\ input \in [arr : DailyLossValues]
    /\ fn = ""
    /\ output = <<>>

\* libcompute's normalizer (the older variant's is the same text)
CallNormalizeDestroyedByDay ==
    /\ fn = ""
    /\ fn' = "normalizeDestroyedByDay"
    /\ output' = normalizeDestroyedByDay(input.arr)
    /\ UNCHANGED input

\* the page's normalizer
CallNormalizeDestroyedByDayPage ==
    /\ fn = ""
    /\ fn' = "normalizeDestroyedByDayPage"
    /\ output' = normalizeDestroyedByDayPage(input.arr)
    /\ UNCHANGED input

NextNormalize == CallNormalizeDestroyedByDay \/ CallNormalizeDestroyedByDayPage

SpecNormalize == InitNormalize /\ [][NextNormalize]_vars

\* entry i (from 1) of the drawn value is absent or is no finite number
AbsentOrInvalid(arr, i) ==
    \/ ~ArrayIsArray(arr)
    \/ i > Len(arr.arr)
    \/ ~NumberIsFinite(ToNumber(arr.arr[i]))

\* out is a sequence of exactly 5 non-negative integers, 0 where the entry of
\* arr is absent or invalid
FiveCounts(arr, out) ==
    /\ DOMAIN out = 1..5
    /\ \A i \in 1..5 :
          /\ NumberIsFinite(out[i])
          /\ IsInteger(out[i])
          /\ out[i].n >= 0
          /\ AbsentOrInvalid(arr, i) => out[i] = Int2Num(0)

\* C7: every daily-loss normalizer, given any input, returns a sequence of
\* exactly 5 non-negative integers in which absent and invalid entries are 0.
NormalizersReturnFiveCounts ==
    fn \in {"normalizeDestroyedByDay", "normalizeDestroyedByDayPage"} =>
        FiveCounts(input.arr, output)

-----------------------------------------------------------------------------
(* the round trip: inferDailyAttritionPct, then remainingAfterDays at the
   inferred rate *)

\* on-hand counts 0..MaxOnHand are drawn, and 16 and 32 for the 4th and 5th roots
MaxOnHand == 9

OnHandCounts == (0..MaxOnHand) \cup {16, 32}

LossCounts == {0, 1, 3, 7}

\* the sum of the first k entries of a sequence of integers
RECURSIVE SumInt(_, _)
SumInt(seq, k) == IF k = 0 THEN 0 ELSE SumInt(seq, k - 1) + seq[k]

\* Math.pow is modelled on this input: no root is taken, or the root is exact
RootIsExact(oh, cum, d) ==
    IF oh = 0 \/ cum = 0 \/ cum >= oh
    THEN TRUE
    ELSE ~IsNaN(MathPow(Rat(oh - cum, oh), Rat(1, d)))

InitRoundTrip ==
    /\ \E oh \in OnHandCounts, byDay \in [1..5 -> LossCounts], d \in 1..5 :
          /\ RootIsExact(oh, SumInt(byDay, d), d)
          /\ input = [onHand |-> oh, destroyedByDay |-> byDay, day |-> d]
    /\ fn = ""
    /\ output = <<>>

CallInferDailyAttritionPct ==
    /\ fn = ""
    /\ fn' = "inferDailyAttritionPct"
    /\ output' = [rate |-> inferDailyAttritionPct(
                               JInt(input.onHand),
                               JArr([i \in 1..5 |-> JInt(input.destroyedByDay[i])]),
                               JInt(input.day))]
    /\ UNCHANGED input

CallRemainingAtInferredRate ==
    /\ fn = "inferDailyAttritionPct"
    /\ fn' = "remainingAfterDays"
    /\ output' = [rate      |-> output.rate,
                  remaining |-> remainingAfterDays(Int2Num(input.onHand), JNum(output.rate),
                                                   JInt(input.day))]
    /\ UNCHANGED input

NextRoundTrip == CallInferDailyAttritionPct \/ CallRemainingAtInferredRate

SpecRoundTrip == InitRoundTrip /\ [][NextRoundTrip]_vars

\* round(onHand - remaining), the loss the model estimates at the inferred rate
ModeledLoss == MathRound(Sub(Int2Num(input.onHand), output.remaining))

CumDestroyed == SumInt(input.destroyedByDay, input.day)

Within1(x, i) == Le(Sub(x, Int2Num(i)), Int2Num(1)) /\ Ge(Sub(x, Int2Num(i)), Int2Num(-1))

-----------------------------------------------------------------------------
(* inferDailyAttritionPct applied to drawn values *)

\* on-hand counts, and on-hand values that are negative, fractional, a
\* numeric string, absent or no finite number
InferOnHandValues ==
    {JInt(i) : i \in OnHandCounts}
    \cup { JInt(-3), JNum(Rat(5, 2)), JStr(<<"8">>), JUndefined, JNum(NaN), JNum(Infinity) }

\* five daily counts, and daily-loss values that are absent, short, or hold a
\* negative, fractional, absent or non-numeric entry
InferLossValues ==
    { JArr([i \in 1..5 |-> JInt(byDay[i])]) : byDay \in [1..5 -> {0, 1, 7}] }
    \cup { JUndefined,
           JArr(<<JInt(3)>>),
           JArr(<<JInt(-2), JNum(Rat(7, 2)), JUndefined, JInt(1), JInt(0)>>),
           JArr(<<JNum(NaN), JInt(0), JInt(0), JInt(0), JInt(0)>>),
           JArr(<<JInt(1), JStr(<<"x">>), JInt(0), JInt(0), JInt(0)>>) }

\* days inside and outside 1..5, fractional, absent, non-numeric
InferDayValues ==
    {JInt(i) : i \in -1..MaxDay} \cup { JNum(Rat(5, 2)), JUndefined, JStr(<<"a","b","c">>) }

\* Math.pow is modelled at frac and d: no root is taken, or the root is exact
FractionInDomain(frac, d) ==
    IF ~NumberIsFinite(frac) THEN TRUE
    ELSE IF Le(frac, Int2Num(0)) THEN TRUE
    ELSE IF Ge(frac, Int2Num(1)) THEN TRUE
    ELSE ~IsNaN(MathPow(frac, Div(Int2Num(1), d)))

LossesInDomain(oh, d, byDay) ==
    IF Le(oh, Int2Num(0)) THEN TRUE
    ELSE FractionInDomain(
             Div(MathMax(Int2Num(0), Sub(oh, SumNum(SubSeq(byDay, 1, d.n)))), oh), d)

InitInfer ==
    /\ input \in [onHand : InferOnHandValues, destroyedByDay : InferLossValues,
                  day : InferDayValues]
    /\ LossesInDomain(MathMax(Int2Num(0), MathFloor(NumberOrZero(input.onHand))),
                      clampInt(input.day, Int2Num(1), Int2Num(5)),
                      normalizeDestroyedByDayPage(input.destroyedByDay))
    /\ fn = ""
    /\ output = <<>>

CallInferOnValues ==
    /\ fn = ""
    /\ fn' = "inferDailyAttritionPct"
    /\ output' = [rate |-> inferDailyAttritionPct(input.onHand, input.destroyedByDay, input.day)]
    /\ UNCHANGED input

NextInfer == CallInferOnValues

SpecInfer == InitInfer /\ [][NextInfer]_vars

\* the day as the claim clamps it: floored into 1..5, 1 when it is no number
ClaimedDay ==
    IF ~IsFiniteNumber(input.day) THEN 1
    ELSE IF Lt(input.day.num, Int2Num(1)) THEN 1
    ELSE IF Gt(input.day.num, Int2Num(5)) THEN 5
    ELSE MathFloor(input.day.num).n

\* the daily-loss input is absent or holds finite numbers and absent entries only
LossesAreCounts ==
    ArrayIsArray(input.destroyedByDay) =>
        \A i \in DOMAIN input.destroyedByDay.arr :
            LET e == input.destroyedByDay.arr[i]
            IN  e.t \in {"undefined", "null"} \/ IsFiniteNumber(e)

\* the sum of the entries of index < ClaimedDay, each floored and not below 0
ClaimedCumDestroyed ==
    LET a == IF ArrayIsArray(input.destroyedByDay) THEN input.destroyedByDay.arr ELSE <<>>
        count(i) == IF i \in DOMAIN a /\ IsFiniteNumber(a[i]) /\ Gt(a[i].num, Int2Num(0))
                    THEN MathFloor(a[i].num)
                    ELSE Int2Num(0)
    IN  SumNum([i \in 1..ClaimedDay |-> count(i)])

\* C12: inferDailyAttritionPct always returns a rate in [0, 100]; on-hand <= 0
\* gives 0; otherwise a cumulative loss through the clamped day that reaches
\* on-hand gives 100 and no loss through that day gives 0, only the entries
\* of index < day being counted and the day being clamped to 1..5.
InferredRateInRange ==
    fn = "inferDailyAttritionPct" =>
        /\ NumberIsFinite(output.rate)
        /\ Ge(output.rate, Int2Num(0))
        /\ Le(output.rate, Int2Num(100))
        /\ (IsFiniteNumber(input.onHand) /\ Le(input.onHand.num, Int2Num(0))) =>
               output.rate = Int2Num(0)
        /\ (IsFiniteNumber(input.onHand) /\ Ge(input.onHand.num, Int2Num(1)) /\ LossesAreCounts) =>
               /\ Ge(ClaimedCumDestroyed, input.onHand.num) => output.rate = Int2Num(100)
               /\ ClaimedCumDestroyed = Int2Num(0) => output.rate = Int2Num(0)

-----------------------------------------------------------------------------
(* computeRows, in both variants, applied to drawn rows and options *)

\* row sequences of 0..MaxRows rows are drawn
MaxRows == 2

Counts(a, b, c, d, e) == JArr(<<JInt(a), JInt(b), JInt(c), JInt(d), JInt(e)>>)

\* unit identifiers: a number (a member of 165_BCG), an alias spelling of
\* OS/SS, a unit of the other group, and none
BnValues ==
    { JInt(1651),
      JStr(<<" ","o","s","-","s","s">>),
      JStr(<<"b"," "," ","c","o">>),
      JStr(<<>>) }

\* on-hand, rate and manual losses of a row: modelled loss above and below
\* the manual loss, manual loss above on-hand, rates outside [0, 100], a
\* negative fractional on-hand (so zero on hand) with a garbled daily
\* sequence, a numeric string on-hand with a legacy fractional scalar, and
\* nothing on hand with a rate and a manual loss
RowFigures ==
    { [onHand |-> JInt(10), dailyAttritionPct |-> JInt(50),
       destroyedByDay |-> Counts(0, 1, 0, 0, 0), destroyedManual |-> JUndefined],
      [onHand |-> JInt(12), dailyAttritionPct |-> JInt(50),
       destroyedByDay |-> Counts(10, 9, 0, 0, 0), destroyedManual |-> JUndefined],
      [onHand |-> JInt(10), dailyAttritionPct |-> JInt(150),
       destroyedByDay |-> Counts(1, 0, 0, 0, 0), destroyedManual |-> JUndefined],
      [onHand |-> JNum(Rat(-5, 2)), dailyAttritionPct |-> JStr(<<"a","b","c">>),
       destroyedByDay |-> JArr(<<JStr(<<"x">>), JNum(Rat(5, 2)), JInt(-1)>>),
       destroyedManual |-> JInt(1)],
      [onHand |-> JStr(<<"7">>), dailyAttritionPct |-> JInt(-50),
       destroyedByDay |-> JNull, destroyedManual |-> JNum(Rat(7, 2))],
      [onHand |-> JInt(0), dailyAttritionPct |-> JInt(60),
       destroyedByDay |-> Counts(2, 0, 0, 0, 0), destroyedManual |-> JUndefined] }

\* the row of unit b with the figures f
Row(b, f) ==
    [id |-> JStr(<<"r">>), bn |-> b, equipmentType |-> JStr(<<"T">>),
     onHand |-> f.onHand, dailyAttritionPct |-> f.dailyAttritionPct,
     destroyedByDay |-> f.destroyedByDay, destroyedManual |-> f.destroyedManual]

\* every figure in a unit of each group, and every unit identifier with the
\* two figures of on-hand 10
RowValues ==
    { Row(b, f) : b \in {JInt(1651), JStr(<<"b"," "," ","c","o">>)}, f \in RowFigures }
    \cup { Row(b, f) : b \in BnValues, f \in {g \in RowFigures : g.onHand = JInt(10)} }

NoOpts == [given |-> FALSE, day |-> JUndefined, useAttrition |-> JUndefined,
           manualWins |-> JUndefined]

OptsValues ==
    { NoOpts }
    \cup [given : {TRUE}, day : {JInt(1), JInt(3)},
          useAttrition : {JBool(TRUE), JBool(FALSE)},
          manualWins : {JBool(TRUE), JBool(FALSE)}]

Init ==
    /\ input \in [rows : UNION { [1..k -> RowValues] : k \in 0..MaxRows }, opts : OptsValues]
    /\ fn = ""
    /\ output = <<>>

CallComputeRows ==
    /\ fn = ""
    /\ fn' = "computeRows"
    /\ output' = computeRows(input.rows, input.opts)
    /\ UNCHANGED input

CallComputeRowsOld ==
    /\ fn = ""
    /\ fn' = "computeRowsOld"
    /\ output' = computeRowsOld(input.rows, input.opts)
    /\ UNCHANGED input

Next == CallComputeRows \/ CallComputeRowsOld

Spec == Init /\ [][Next]_vars

\* the call returned (it did not raise)
Returned(name) == fn = name /\ ~output.threw

\* modelling is enabled / manual wins, as the drawn options say (both default to true)
ModelingEnabled == input.opts.given => input.opts.useAttrition = JBool(TRUE)

ManualWins == input.opts.given => input.opts.manualWins = JBool(TRUE)

\* every Computed Row and every summary of the returned value
Aggregates ==
    {output.computedRows[i] : i \in DOMAIN output.computedRows}
    \cup {[k \in {"onHand", "remaining", "destroyed"} |-> output.bnSummaries[i][k]]
             : i \in DOMAIN output.bnSummaries}
    \cup (IF fn = "computeRows"
          THEN {[k \in {"onHand", "remaining", "destroyed"} |-> output.groupSummaries[i][k]]
                   : i \in DOMAIN output.groupSummaries}
          ELSE {})

\* C1: every Computed Row, every Unit Summary and both Group Summaries
\* returned by computeRows satisfy 0 <= remaining <= onHand.
RemainingWithinOnHand ==
    (Returned("computeRows") \/ Returned("computeRowsOld")) =>
        \A x \in Aggregates :
            Ge(x.remaining, Int2Num(0)) /\ Le(x.remaining, x.onHand)

\* a manual loss above on-hand (10 + 9 of 12 through day 3) has left a row
\* with nothing remaining, and it is counted in a Unit Summary
OverReportedRowReached ==
    /\ Returned("computeRows")
    /\ input.opts.given
    /\ input.opts.day = JInt(3)
    /\ \E i \in DOMAIN output.computedRows :
          /\ input.rows[i].destroyedByDay = Counts(10, 9, 0, 0, 0)
          /\ output.computedRows[i].onHand = Int2Num(12)
          /\ output.computedRows[i].remaining = Int2Num(0)
    /\ output.bnSummaries # <<>>

\* C2: every Computed Row, every Unit Summary and both Group Summaries
\* returned by computeRows satisfy destroyed + remaining = onHand, as integers.
DestroyedPlusRemainingIsOnHand ==
    (Returned("computeRows") \/ Returned("computeRowsOld")) =>
        \A x \in Aggregates :
            /\ IsInteger(x.destroyed)
            /\ IsInteger(x.remaining)
            /\ IsInteger(x.onHand)
            /\ Add(x.destroyed, x.remaining) = x.onHand

\* a Unit Summary of two rows has been returned with part destroyed, part remaining
MixedUnitSummaryReached ==
    /\ Returned("computeRows")
    /\ Len(output.computedRows) = 2
    /\ \E i \in DOMAIN output.bnSummaries :
          /\ output.bnSummaries[i].onHand = Int2Num(22)
          /\ Gt(output.bnSummaries[i].destroyed, Int2Num(0))
          /\ Gt(output.bnSummaries[i].remaining, Int2Num(0))

\* C4: with manual-wins, final destroyed = max(manual, modeled) when modelling
\* is enabled and = manual when it is disabled; without manual-wins it is the
\* modeled value when modelling is enabled and manual otherwise; manual being
\* the row's cumulative manual loss through the day clamped to [0, onHand].
ReconciliationPolicy ==
    (Returned("computeRows") \/ Returned("computeRowsOld")) =>
        \A i \in DOMAIN output.computedRows :
            LET r       == output.computedRows[i]
                manual  == r.destroyedManualActive
                modeled == r.destroyedAttrition
            IN  r.destroyed =
                    IF ModelingEnabled
                    THEN (IF ManualWins THEN MathMax(manual, modeled) ELSE modeled)
                    ELSE manual

\* manual 10 and modeled 6 have been reconciled to 10 under manual-wins, and
\* to 6 under the other policy
ReconciledExampleReached ==
    /\ Returned("computeRows")
    /\ ModelingEnabled
    /\ \E i \in DOMAIN output.computedRows :
          /\ output.computedRows[i].destroyedManualActive = Int2Num(10)
          /\ output.computedRows[i].destroyedAttrition = Int2Num(6)
          /\ output.computedRows[i].destroyed = Int2Num(10)

\* a row's rate clamped to [0, 100]
ClampedRate(r) == MathMax(Int2Num(0), MathMin(Int2Num(100), safeNum(r.dailyAttritionPct)))

\* the on-hand-weighted average of the clamped rates of the rows rs
ClampedWeightedRate(rs) ==
    LET totalWeight == SumNum([i \in DOMAIN rs |-> rs[i].onHand])
    IN  IF Gt(totalWeight, Int2Num(0))
        THEN Div(SumNum([i \in DOMAIN rs |-> Mul(ClampedRate(rs[i]), rs[i].onHand)]), totalWeight)
        ELSE Int2Num(0)

\* C5: every attrition rate is clamped to [0, 100] before it is used: by the
\* decay model, by the threshold projector, and where it enters the weighted
\* rate of a Unit or Group Summary (a rate below 0 counting as 0, one above 100
\* as 100).
RatesClampedBeforeUse ==
    Returned("computeRows") =>
        /\ \A i \in DOMAIN output.computedRows :
              LET r == output.computedRows[i]
              IN  /\ Gt(r.onHand, Int2Num(0)) =>
                         r.daysTo25Pct = daysToReachFraction(JNum(ClampedRate(r)), Quarter)
                  /\ ModelingEnabled =>
                         r.destroyedAttrition =
                             clamp(MathRound(Sub(r.onHand,
                                       remainingAfterDays(r.onHand, JNum(ClampedRate(r)),
                                                          JNum(output.day)))),
                                   Int2Num(0), r.onHand)
        /\ \A i \in DOMAIN output.bnSummaries :
              LET s  == output.bnSummaries[i]
                  rs == SelectSeq(output.computedRows, LAMBDA r : r.bn = JStr(s.bn))
              IN  Gt(s.onHand, Int2Num(0)) =>
                      s.daysTo25Pct = daysToReachFraction(JNum(ClampedWeightedRate(rs)), Quarter)
        /\ \A i \in DOMAIN output.groupSummaries :
              LET g  == output.groupSummaries[i]
                  rs == SelectSeq(output.computedRows, LAMBDA r : groupForBn(r.bn) = g.group)
              IN  Gt(g.onHand, Int2Num(0)) =>
                      g.daysTo25Pct = daysToReachFraction(JNum(ClampedWeightedRate(rs)), Quarter)

\* a number field of the returned value is a finite number
FiniteFields(x, fields) == \A k \in fields : NumberIsFinite(x[k])

\* day-to-threshold is null or a finite number
NullOrFinite(v) == v = JNull \/ IsFiniteNumber(v)

\* C6: computeRows never raises, whatever the rows' fields and the options,
\* and what it returns holds only finite numbers, day-to-threshold being a
\* finite number or null.
ComputeRowsNeverRaises ==
    fn \in {"computeRows", "computeRowsOld"} =>
        /\ ~output.threw
        /\ \A i \in DOMAIN output.computedRows :
              /\ FiniteFields(output.computedRows[i],
                     {"onHand", "destroyedManual", "destroyedAttrition", "destroyed", "remaining",
                      "combatPowerPct", "destroyedManualActive", "destroyedManualTotal"})
              /\ NullOrFinite(output.computedRows[i].daysTo25Pct)
        /\ \A i \in DOMAIN output.bnSummaries :
              /\ FiniteFields(output.bnSummaries[i],
                     {"onHand", "destroyed", "remaining", "combatPowerPct"})
              /\ NullOrFinite(output.bnSummaries[i].daysTo25Pct)

\* the sum of a field over the Computed Rows whose index is in members
MemberSum(members, field) ==
    SumNum([i \in DOMAIN output.computedRows |->
               IF i \in members THEN output.computedRows[i][field] ELSE Int2Num(0)])

\* the indices of the rows supplied with an identifier whose canonical form is bn
UnitMembers(bn) == {i \in DOMAIN input.rows : normalizeBn(input.rows[i].bn) = bn}

\* the indices of the rows supplied with an identifier on side g of the partition
GroupMembers(g) == {i \in DOMAIN input.rows : groupForBn(input.rows[i].bn) = g}

\* C13: in every Unit Summary and in both Group Summaries, onHand, remaining
\* and destroyed are each the sum of that field over exactly the Computed
\* Rows of that unit (same canonical identifier) or group (same side).
SummariesSumTheirMembers ==
    Returned("computeRows") =>
        \A k \in {"onHand", "remaining", "destroyed"} :
            /\ \A i \in DOMAIN output.bnSummaries :
                  output.bnSummaries[i][k] = MemberSum(UnitMembers(output.bnSummaries[i].bn), k)
            /\ \A i \in DOMAIN output.groupSummaries :
                  output.groupSummaries[i][k] =
                      MemberSum(GroupMembers(output.groupSummaries[i].group), k)

\* two units of the same side have been summed into one Group Summary, each
\* keeping a Unit Summary of its own
TwoUnitsOneGroupReached ==
    /\ Returned("computeRows")
    /\ Len(output.computedRows) = 2
    /\ Len(output.bnSummaries) = 2
    /\ \A i \in 1..2 : output.bnSummaries[i].onHand = Int2Num(10)
    /\ output.groupSummaries[1].onHand = Int2Num(20)
    /\ Gt(output.groupSummaries[1].destroyed, Int2Num(0))
    /\ output.groupSummaries[2].onHand = Int2Num(0)

\* sum(rate_i * onHand_i) / sum(onHand_i) over the rows of members that have
\* something on hand, the rate being the row's stored rate (0 when it is no
\* finite number)
WeightedRate(members) ==
    LET weights == {i \in members : Gt(output.computedRows[i].onHand, Int2Num(0))}
    IN  Div(SumNum([i \in DOMAIN output.computedRows |->
                       IF i \in weights
                       THEN Mul(safeNum(input.rows[i].dailyAttritionPct),
                                output.computedRows[i].onHand)
                       ELSE Int2Num(0)]),
            MemberSum(weights, "onHand"))

\* a summary s of the rows members projects from their weighted rate, or
\* reports null and combat power 0 when nothing is on hand
ProjectsFromWeightedRate(s, members) ==
    IF Gt(s.onHand, Int2Num(0))
    THEN s.daysTo25Pct = daysToReachFraction(JNum(WeightedRate(members)), Quarter)
    ELSE s.daysTo25Pct = JNull /\ s.combatPowerPct = Int2Num(0)

\* C14: the day-to-threshold of every Unit and Group Summary is
\* daysToReachFraction of the weighted rate sum(rate_i * onHand_i) /
\* sum(onHand_i) over its rows, rows with nothing on hand contributing
\* nothing; a summary whose on-hand is 0 reports null and combat power 0.
SummariesProjectFromWeightedRate ==
    Returned("computeRows") =>
        /\ \A i \in DOMAIN output.bnSummaries :
              ProjectsFromWeightedRate(output.bnSummaries[i],
                                       UnitMembers(output.bnSummaries[i].bn))
        /\ \A i \in DOMAIN output.groupSummaries :
              ProjectsFromWeightedRate(output.groupSummaries[i],
                                       GroupMembers(output.groupSummaries[i].group))

\* rates 150 and 50 on 10 and 12 on hand have been weighted to 2100/22, which
\* reaches a quarter within 1 day, while the side with no row reports null
WeightedProjectionReached ==
    /\ Returned("computeRows")
    /\ Len(output.computedRows) = 2
    /\ {input.rows[i].dailyAttritionPct : i \in 1..2} = {JInt(150), JInt(50)}
    /\ \E i \in DOMAIN output.bnSummaries :
          /\ output.bnSummaries[i].onHand = Int2Num(22)
          /\ WeightedRate(UnitMembers(output.bnSummaries[i].bn)) = Rat(2100, 22)
          /\ output.bnSummaries[i].daysTo25Pct = JInt(1)
    /\ \E i \in DOMAIN output.groupSummaries :
          /\ output.groupSummaries[i].onHand = Int2Num(0)
          /\ output.groupSummaries[i].daysTo25Pct = JNull
          /\ output.groupSummaries[i].combatPowerPct = Int2Num(0)

\* the canonical identifiers of the drawn rows, in ascending order
IdentifiersAscending == << <<"1","6","5","1">>, <<"B"," ","C","O">>, OS_SS >>

\* the i-th Computed Row derives from the i-th row supplied
RowsInInputOrder ==
    /\ Len(output.computedRows) = Len(input.rows)
    /\ \A i \in DOMAIN input.rows :
          /\ output.computedRows[i].bn = JStr(normalizeBn(input.rows[i].bn))
          /\ output.computedRows[i].onHand = onHandOf(input.rows[i])
          /\ output.computedRows[i].dailyAttritionPct = input.rows[i].dailyAttritionPct
          /\ output.computedRows[i].destroyedByDay = input.rows[i].destroyedByDay

\* the Unit Summaries are those of the identifiers ids, one each, ascending
UnitSummariesAre(ids) ==
    /\ {output.bnSummaries[i].bn : i \in DOMAIN output.bnSummaries} = ids
    /\ Len(output.bnSummaries) = Cardinality(ids)
    /\ \A i, j \in DOMAIN output.bnSummaries :
          i < j => IndexOf(IdentifiersAscending, output.bnSummaries[i].bn)
                       < IndexOf(IdentifiersAscending, output.bnSummaries[j].bn)

\* exactly two Group Summaries, 165_BCG then OTHER
TwoGroupSummaries ==
    /\ Len(output.groupSummaries) = 2
    /\ output.groupSummaries[1].group = "165_BCG"
    /\ output.groupSummaries[2].group = "OTHER"

\* C15 as stated: computedRows follows the input row by row, bnSummaries has
\* exactly one entry per distinct canonical identifier of the rows, sorted
\* ascending, and groupSummaries is 165_BCG then OTHER, whatever the input.
OutputShapeAsStated ==
    Returned("computeRows") =>
        /\ RowsInInputOrder
        /\ UnitSummariesAre({normalizeBn(input.rows[i].bn) : i \in DOMAIN input.rows})
        /\ TwoGroupSummaries

\* C15 as amended: bnSummaries has exactly one entry per distinct non-empty
\* canonical identifier (a row whose identifier is empty after
\* canonicalization has no Unit Summary); the rest as stated.
OutputShapeNonEmptyIdentifiers ==
    Returned("computeRows") =>
        /\ RowsInInputOrder
        /\ UnitSummariesAre({normalizeBn(input.rows[i].bn) : i \in DOMAIN input.rows} \ {<<>>})
        /\ TwoGroupSummaries

\* rows supplied as OS/SS then 1651 have been summarised as 1651 then OS/SS,
\* the Computed Rows keeping the order supplied
SummariesReorderedReached ==
    /\ Returned("computeRows")
    /\ Len(input.rows) = 2
    /\ output.computedRows[1].bn = JStr(OS_SS)
    /\ output.computedRows[2].bn = JStr(<<"1","6","5","1">>)
    /\ Len(output.bnSummaries) = 2
    /\ output.bnSummaries[1].bn = <<"1","6","5","1">>
    /\ output.bnSummaries[2].bn = OS_SS

-----------------------------------------------------------------------------
(* normalizeBn, and computeRows in both variants applied to two rows whose
   unit identifiers are drawn in many spellings *)

\* generated identifiers have at most MaxIdLen characters
MaxIdLen == 2

\* alias spellings of OS/SS in several cases and spacings, a spelling that is
\* no alias (OS / SS), units in several cases and spacings, a number, absent
\* and blank identifiers, and every short string over a, A and the space
IdentifierValues ==
    { JStr(<<"O","S","/","S","S">>),
      JStr(<<"o","s","/","s","s">>),
      JStr(<<" ","O","s","/","S","s"," ">>),
      JStr(<<"O","S","S","S">>),
      JStr(<<"o","s","s","s">>),
      JStr(<<"O","S","-","S","S">>),
      JStr(<<"O","S"," ","&"," ","S","S">>),
      JStr(<<"o","s"," "," ","&"," "," ","s","s">>),
      JStr(<<"O","S","\t","&","\t","S","S">>),
      JStr(<<"O","S"," ","A","N","D"," ","S","S">>),
      JStr(<<" "," ","o","s"," ","a","n","d","\t"," ","s","s"," ">>),
      JStr(<<"O","S"," ","/"," ","S","S">>),
      JStr(<<"B"," ","C","O">>),
      JStr(<<"b"," ","c","o">>),
      JStr(<<" ","B"," ","C","o","\t">>),
      JStr(<<"B","C","O">>),
      JStr(<<"1","6","5","1">>),
      JStr(<<" ","1","6","5","1"," ">>),
      JStr(<<" "," ">>),
      JInt(1651), JUndefined, JNull }
    \cup { JStr(s) : s \in UNION { [1..k -> {"a", "A", " "}] : k \in 0..MaxIdLen } }

TenOnHand == [onHand |-> JInt(10), dailyAttritionPct |-> JInt(50),
              destroyedByDay |-> Counts(0, 1, 0, 0, 0), destroyedManual |-> JUndefined]

TwelveOnHand == [onHand |-> JInt(12), dailyAttritionPct |-> JInt(50),
                 destroyedByDay |-> Counts(10, 9, 0, 0, 0), destroyedManual |-> JUndefined]

InitIdentifiers ==
    /\ input \in { [rows |-> <<Row(a, TenOnHand), Row(b, TwelveOnHand)>>, opts |-> NoOpts] :
                      a \in IdentifierValues, b \in IdentifierValues }
    /\ fn = ""
    /\ output = <<>>

\* normalizeBn(raw) of the first row's identifier, and of its own result
CallNormalizeBn ==
    /\ fn = ""
    /\ fn' = "normalizeBn"
    /\ output' = [ threw |-> FALSE,
                   once  |-> normalizeBn(input.rows[1].bn),
                   twice |-> normalizeBn(JStr(normalizeBn(input.rows[1].bn))) ]
    /\ UNCHANGED input

NextIdentifiers == CallNormalizeBn \/ CallComputeRows \/ CallComputeRowsOld

SpecIdentifiers == InitIdentifiers /\ [][NextIdentifiers]_vars

\* the identifier as text: absent identifiers are the empty string
IdentifierText(raw) == StringOf(IF raw.t \in {"undefined", "null"} THEN JStr(<<>>) ELSE raw)

\* s from position i on, in upper case, with leading and trailing whitespace
\* dropped and every inner run of whitespace replaced by one space
RECURSIVE Squeezed(_, _)
Squeezed(s, i) ==
    IF i > Len(s) THEN <<>>
    ELSE IF s[i] \notin WhiteSpace
         THEN << IF \E k \in DOMAIN LowerCase : LowerCase[k] = s[i]
                 THEN UpperCase[CHOOSE k \in DOMAIN LowerCase : LowerCase[k] = s[i]]
                 ELSE s[i] >> \o Squeezed(s, i + 1)
         ELSE IF /\ i > 1
                 /\ s[i - 1] \notin WhiteSpace
                 /\ \E j \in (i + 1)..Len(s) : s[j] \notin WhiteSpace
              THEN <<" ">> \o Squeezed(s, i + 1)
              ELSE Squeezed(s, i + 1)

\* the alias spellings the claim lists
ClaimedAliases ==
    { <<"O","S","/","S","S">>, <<"O","S","S","S">>, <<"O","S","-","S","S">>,
      <<"O","S"," ","&"," ","S","S">>, <<"O","S"," ","A","N","D"," ","S","S">> }

\* the canonical form the claim describes
ClaimedCanonical(raw) ==
    IF Squeezed(IdentifierText(raw), 1) \in ClaimedAliases
    THEN <<"O","S","/","S","S">>
    ELSE Squeezed(IdentifierText(raw), 1)

\* the two rows' identifiers differ only in case, whitespace or alias spelling
SameUnitSpelledTwice ==
    /\ ClaimedCanonical(input.rows[1].bn) = ClaimedCanonical(input.rows[2].bn)
    /\ ClaimedCanonical(input.rows[1].bn) # <<>>

NormalizeBnCanonical ==
    fn = "normalizeBn" =>
        /\ output.once = ClaimedCanonical(input.rows[1].bn)
        /\ output.twice = output.once

\* C16: normalizeBn returns the trimmed, upper-case, whitespace-collapsed form
\* of every identifier, OS/SS for every alias spelling, and the same again
\* when applied to its own result; rows whose identifiers differ only in
\* case, whitespace or alias spelling share one Unit Summary, in either
\* variant of computeRows.
CanonicalIdentifiersShareSummary ==
    /\ NormalizeBnCanonical
    /\ (fn \in {"computeRows", "computeRowsOld"} /\ ~output.threw /\ SameUnitSpelledTwice) =>
           /\ Len(output.bnSummaries) = 1
           /\ output.bnSummaries[1].onHand = Int2Num(22)

\* C16 for normalizeBn and the current computeRows only
CanonicalIdentifiersShareSummaryCurrent ==
    /\ NormalizeBnCanonical
    /\ (fn = "computeRows" /\ SameUnitSpelledTwice) =>
           /\ Len(output.bnSummaries) = 1
           /\ output.bnSummaries[1].bn = ClaimedCanonical(input.rows[1].bn)
           /\ output.bnSummaries[1].onHand = Int2Num(22)

\* two alias spellings of OS/SS have been summarised as the one unit OS/SS
AliasesSharedSummaryReached ==
    /\ fn = "computeRows"
    /\ input.rows[1].bn = JStr(<<"o","s","s","s">>)
    /\ input.rows[2].bn = JStr(<<" "," ","o","s"," ","a","n","d","\t"," ","s","s"," ">>)
    /\ Len(output.bnSummaries) = 1
    /\ output.bnSummaries[1].bn = OS_SS

-----------------------------------------------------------------------------
(* the page's day, useAttrition and rows state under load, slider and restore,
   and computeRows called with drawn days *)

\* days as they arrive: whole, fractional, out of range, absent, non-numeric,
\* non-finite, and numeric strings (the slider hands over a string)
DayArgValues ==
    InferDayValues
    \cup { JNum(Infinity), JNum(NegInfinity), JNum(NaN), JNull,
           JStr(<<"3">>), JStr(<<"9">>) }

\* stored rows: losing everything on day 4; and a numeric-string on-hand with
\* a short loss sequence and no unit
StoredRowValues ==
    { JArr(<<>>),
      JArr(<< [id |-> JStr(<<"a">>), bn |-> JStr(<<"b"," ","c","o">>), equipmentType |-> JStr(<<"T">>),
               onHand |-> JInt(10), dailyAttritionPct |-> JInt(30),
               destroyedByDay |-> Counts(0, 0, 0, 10, 0), destroyedManual |-> JUndefined] >>),
      JArr(<< [id |-> JStr(<<"b">>), bn |-> JUndefined, equipmentType |-> JUndefined,
               onHand |-> JStr(<<"8">>), dailyAttritionPct |-> JUndefined,
               destroyedByDay |-> JArr(<<JInt(9)>>), destroyedManual |-> JUndefined] >>),
      JStr(<<"x">>) }

\* a stored state that is no object
NoState == [given |-> FALSE, day |-> JUndefined, useAttrition |-> JUndefined,
            rows |-> JUndefined]

StateValues ==
    { NoState }
    \cup [given : {TRUE}, day : DayArgValues, useAttrition : {JUndefined, JBool(FALSE)},
          rows : StoredRowValues]

\* safeParseState(st).day and so on: {} when st is no object
StateDay(st) == IF st.given THEN st.day ELSE JUndefined

StateUseAttrition(st) == IF st.given THEN st.useAttrition ELSE JUndefined

StateRows(st) == IF st.given /\ ArrayIsArray(st.rows) THEN st.rows.arr ELSE <<>>

\* the five normalized losses as an array of numbers
numbersOf(byDay) == JArr([i \in 1..5 |-> JNum(byDay[i])])

\* String(v || "")
stringOrEmpty(v) == JStr(IF Truthy(v) THEN StringOf(v) ELSE <<>>)

\* { ...r, onHand, destroyedByDay: byDay, dailyAttritionPct: inferDailyAttritionPct(onHand, byDay, d) }
pageRowAt(r, onHand, byDay, d) ==
    [ id                |-> r.id,
      bn                |-> r.bn,
      equipmentType     |-> r.equipmentType,
      onHand            |-> onHand,
      dailyAttritionPct |-> JNum(inferDailyAttritionPct(onHand, byDay, JNum(d))),
      destroyedByDay    |-> byDay,
      destroyedManual   |-> r.destroyedManual ]

\* a row of setDayAndRecalc's prev.map
recalcRow(r, d) ==
    pageRowAt(r, r.onHand, numbersOf(normalizeDestroyedByDayPage(r.destroyedByDay)), d)

\* a row of normalizeLoadedState's nextRows.map
loadedRow(r, nextDay) ==
    pageRowAt([r EXCEPT !.bn = stringOrEmpty(r.bn),
                        !.equipmentType = stringOrEmpty(r.equipmentType)],
              JNum(NumberOrZero(r.onHand)),
              numbersOf(normalizeDestroyedByDayPage(r.destroyedByDay)),
              nextDay)

\* normalizeLoadedState from nextDay on
loadedStateAt(st, nextDay) ==
    [ day          |-> nextDay,
      useAttrition |-> Truthy(Coalesce(StateUseAttrition(st), JBool(TRUE))),
      rows         |-> [i \in DOMAIN StateRows(st) |-> loadedRow(StateRows(st)[i], nextDay)] ]

normalizeLoadedState(st) ==
    loadedStateAt(st, clampInt(Coalesce(StateDay(st), JInt(1)), Int2Num(1), Int2Num(5)))

\* the page's state after setDayAndRecalc, from d on
sliderStateAt(page, d) ==
    [ day          |-> d,
      useAttrition |-> page.useAttrition,
      rows         |-> [i \in DOMAIN page.rows |-> recalcRow(page.rows[i], d)] ]

setDayAndRecalc(page, nextDay) ==
    sliderStateAt(page, clampInt(nextDay, Int2Num(1), Int2Num(5)))

\* a row of DEFAULT_STATE
defaultRow(id, bn, equipmentType, onHand, byDay) ==
    [ id                |-> JStr(id),
      bn                |-> JStr(bn),
      equipmentType     |-> JStr(equipmentType),
      onHand            |-> onHand,
      dailyAttritionPct |-> JNum(inferDailyAttritionPct(onHand, byDay, JInt(1))),
      destroyedByDay    |-> byDay,
      destroyedManual   |-> JUndefined ]

DEFAULT_STATE ==
    [ day          |-> Int2Num(1),
      useAttrition |-> TRUE,
      rows         |-> << defaultRow(<<"1">>, <<"1","6","5","1">>,
                                     <<"T","y","p","e"," ","9","6"," ","M","B","T">>,
                                     JInt(44), Counts(0, 1, 0, 0, 0)),
                          defaultRow(<<"2">>, <<"1","6","5","1">>,
                                     <<"T","y","p","e"," ","9","9"," ","M","B","T">>,
                                     JInt(33), Counts(0, 0, 2, 0, 0)),
                          defaultRow(<<"3">>, <<"1","6","5","2">>,
                                     <<"T","y","p","e"," ","9","6"," ","M","B","T">>,
                                     JInt(44), Counts(1, 0, 0, 0, 0)) >> ]

\* the rates of these rows at day d are within the modelled domain of Math.pow
RowsInDomain(rows, d) ==
    \A i \in DOMAIN rows :
        LossesInDomain(MathMax(Int2Num(0), MathFloor(NumberOrZero(rows[i].onHand))), d,
                       normalizeDestroyedByDayPage(rows[i].destroyedByDay))

\* the row computeRows is called on: five different daily losses
DayRow ==
    Row(JInt(1651), [onHand |-> JInt(100), dailyAttritionPct |-> JInt(50),
                     destroyedByDay |-> Counts(1, 2, 3, 4, 5), destroyedManual |-> JUndefined])

DayOptsValues ==
    { NoOpts }
    \cup [given : {TRUE}, day : DayArgValues, useAttrition : {JBool(TRUE)},
          manualWins : {JBool(TRUE), JBool(FALSE)}]

InitDay ==
    /\ input = <<>>
    /\ fn = ""
    /\ output = [page |-> DEFAULT_STATE, returned |-> <<>>]

\* the load on mount: nothing is set when there is no stored state
LoadOnMount ==
    \E st \in StateValues :
        /\ input' = st
        /\ fn' = "load"
        /\ output' = [page     |-> IF st.given THEN normalizeLoadedState(st) ELSE output.page,
                      returned |-> <<>>]

\* the day slider's onChange
MoveSlider ==
    \E v \in DayArgValues :
        /\ RowsInDomain(output.page.rows, clampInt(v, Int2Num(1), Int2Num(5)))
        /\ input' = v
        /\ fn' = "setDayAndRecalc"
        /\ output' = [page |-> setDayAndRecalc(output.page, v), returned |-> <<>>]

RestoreFromHistory ==
    \E st \in StateValues :
        /\ input' = st
        /\ fn' = "restoreFromHistory"
        /\ output' = [page |-> normalizeLoadedState(st), returned |-> <<>>]

\* computeRows called on DayRow with drawn options
CallComputeRowsOnDay ==
    \E o \in DayOptsValues :
        /\ input' = [rows |-> <<DayRow>>, opts |-> o]
        /\ fn' = "computeRows"
        /\ output' = [page |-> output.page, returned |-> computeRows(<<DayRow>>, o)]

NextDay == LoadOnMount \/ MoveSlider \/ RestoreFromHistory \/ CallComputeRowsOnDay

SpecDay == InitDay /\ [][NextDay]_vars

\* the manual losses of DayRow through each day, and its modelled losses
\* round(100 - 100 * 0.5^day)
DayRowManual == <<1, 3, 6, 10, 15>>

DayRowAttrition == <<50, 75, 88, 94, 97>>

\* the day the claim says computeRows selects
ClaimedSelectedDay(v) ==
    IF v.t \in {"undefined", "null"} THEN 1
    ELSE IF IsNaN(ToNumber(v)) THEN 1
    ELSE IF Lt(ToNumber(v), Int2Num(1)) THEN 1
    ELSE IF Gt(ToNumber(v), Int2Num(5)) THEN 5
    ELSE MathFloor(ToNumber(v)).n

\* the same, a day that is not finite counting as non-numeric
ClaimedSelectedDayFinite(v) ==
    IF ~NumberIsFinite(ToNumber(v)) THEN 1 ELSE ClaimedSelectedDay(v)

PageDayInRange == output.page.day \in {Int2Num(i) : i \in 1..5}

ComputeRowsUsesDay(d) ==
    /\ output.returned.day = Int2Num(d)
    /\ output.returned.computedRows[1].destroyedManualActive = Int2Num(DayRowManual[d])
    /\ output.returned.computedRows[1].destroyedAttrition = Int2Num(DayRowAttrition[d])

\* C17 as stated: the page's day is a whole number in [1, 5] in every state;
\* computeRows selects day 1 for an absent or non-numeric day, 1 for a day
\* below 1, 5 for a day above 5 and the floor of any other, sums the manual
\* losses and runs the decay model through that day, and returns it.
SelectedDayAsStated ==
    /\ PageDayInRange
    /\ fn = "computeRows" => ComputeRowsUsesDay(ClaimedSelectedDay(OptDay(input.opts)))

\* C17 as amended: the same, with a day that is not finite (Infinity included)
\* selected as 1 by computeRows.
SelectedDayFinite ==
    /\ PageDayInRange
    /\ fn = "computeRows" => ComputeRowsUsesDay(ClaimedSelectedDayFinite(OptDay(input.opts)))

\* with the page on day 5, computeRows called with day 2.5 has used day 2
FractionalDayFlooredReached ==
    /\ fn = "computeRows"
    /\ output.page.day = Int2Num(5)
    /\ input.opts.given
    /\ input.opts.day = JNum(Rat(5, 2))
    /\ output.returned.day = Int2Num(2)
    /\ output.returned.computedRows[1].destroyedManualActive = Int2Num(3)

-----------------------------------------------------------------------------
(* per-row figures of computeRows (specification Spec) *)

\* some variant of computeRows returned
ReturnedRows == fn # "" /\ ~output.threw

HasDailyLosses(row) == row.destroyedByDay.t = "array"

\* the sum of the first d entries of the five losses
RECURSIVE LossesThrough(_, _)
LossesThrough(losses, d) ==
    IF d = 0 THEN Int2Num(0) ELSE Add(losses[d], LossesThrough(losses, d - 1))

\* the legacy single value, floored and non-negative
LegacyLoss(row) ==
    IF row.destroyedManual.t = "undefined" THEN Int2Num(0)
    ELSE MathMax(Int2Num(0), MathFloor(safeNum(row.destroyedManual)))

\* C19: destroyedManualActive is min(onHand, sum of the first day normalized
\* daily losses) and destroyedManualTotal is min(onHand, sum of all five); a
\* row with no daily-loss sequence has min(onHand, its legacy value floored
\* and non-negative) as both.
ManualLossesThroughDay ==
    ReturnedRows =>
        \A i \in DOMAIN output.computedRows :
            LET r      == output.computedRows[i]
                row    == input.rows[i]
                losses == normalizeDestroyedByDay(row.destroyedByDay)
            IN  IF HasDailyLosses(row)
                THEN /\ r.destroyedManualActive
                            = MathMin(r.onHand, LossesThrough(losses, output.day.n))
                     /\ r.destroyedManualTotal = MathMin(r.onHand, LossesThrough(losses, 5))
                ELSE /\ r.destroyedManualActive = MathMin(r.onHand, LegacyLoss(row))
                     /\ r.destroyedManualTotal = MathMin(r.onHand, LegacyLoss(row))

\* on day 1 a row of 12 with losses 10 and 9 has come back with 10 active and
\* 12 in total, next to a row of 7 with the legacy value 3.5 and 3 as both
ManualActiveAndLegacyReached ==
    /\ Returned("computeRows")
    /\ output.day = Int2Num(1)
    /\ Len(output.computedRows) = 2
    /\ input.rows[1].destroyedByDay = Counts(10, 9, 0, 0, 0)
    /\ output.computedRows[1].destroyedManualActive = Int2Num(10)
    /\ output.computedRows[1].destroyedManualTotal = Int2Num(12)
    /\ input.rows[2].destroyedByDay = JNull
    /\ input.rows[2].destroyedManual = JNum(Rat(7, 2))
    /\ output.computedRows[2].destroyedManualActive = Int2Num(3)
    /\ output.computedRows[2].destroyedManualTotal = Int2Num(3)

\* C20: with modelling enabled destroyedAttrition is
\* round(onHand - remainingAfterDays(onHand, rate, day)) clamped to
\* [0, onHand]; with modelling disabled it is 0.
ModelledLossOfRows ==
    ReturnedRows =>
        \A i \in DOMAIN output.computedRows :
            LET r == output.computedRows[i]
            IN  IF ModelingEnabled
                THEN r.destroyedAttrition
                        = MathMax(Int2Num(0),
                              MathMin(r.onHand,
                                  MathRound(Sub(r.onHand,
                                      remainingAfterDays(r.onHand, input.rows[i].dailyAttritionPct,
                                                         JNum(output.day))))))
                ELSE r.destroyedAttrition = Int2Num(0)

\* on day 3 a row of 10 at rate 50 (1.25 left, 8.75 lost) has come back with a
\* modelled loss of 9
ModelledLossRoundedReached ==
    /\ Returned("computeRows")
    /\ ModelingEnabled
    /\ output.day = Int2Num(3)
    /\ Len(output.computedRows) = 1
    /\ input.rows[1].onHand = JInt(10)
    /\ input.rows[1].dailyAttritionPct = JInt(50)
    /\ output.computedRows[1].destroyedAttrition = Int2Num(9)

-----------------------------------------------------------------------------
(* computeRows called twice on the same row objects, with another call on
   them in between: what the calls leave in the caller's rows *)

\* a row object after the body of rows.map has run on it: the body reads
\* row.onHand, row.destroyedByDay, row.destroyedManual, row.dailyAttritionPct
\* and row.bn, builds its result with a spread copy, and assigns to no field
rowAfterCall(row) == row

\* rowAfterCall writing the normalized daily losses back into the row
rowsAfterCallNormalized(rows) ==
    [i \in DOMAIN rows |->
        [rows[i] EXCEPT !.destroyedByDay =
            JArr([k \in 1..5 |-> JNum(normalizeDestroyedByDay(rows[i].destroyedByDay)[k])])]]

\* the caller's row array after computeRows has returned: rows.map leaves the
\* array as it was, and bnSummaries.sort sorts a fresh array
rowsAfterCall(rows) == [i \in DOMAIN rows |-> rowAfterCall(rows[i])]

InitTwoCalls ==
    /\ input \in [rows : UNION { [1..k -> {Row(JInt(1651), f) : f \in RowFigures}]
                                    : k \in 0..MaxRows },
                  opts : OptsValues,
                  otherOpts : { NoOpts,
                                [given |-> TRUE, day |-> JInt(3), useAttrition |-> JBool(FALSE),
                                 manualWins |-> JBool(TRUE)],
                                [given |-> TRUE, day |-> JInt(1), useAttrition |-> JBool(TRUE),
                                 manualWins |-> JBool(FALSE)] }]
    /\ fn = ""
    /\ output = <<>>

\* the first call; the caller has kept a copy of the rows as they were
FirstCall ==
    /\ fn = ""
    /\ fn' = "first"
    /\ output' = [rowsBefore |-> input.rows, first |-> computeRows(input.rows, input.opts)]
    /\ input' = [input EXCEPT !.rows = rowsAfterCall(input.rows)]

\* a call on the same rows with other options
CallBetween ==
    /\ fn = "first"
    /\ fn' = "between"
    /\ output' = [rowsBefore |-> output.rowsBefore, first |-> output.first,
                  between |-> computeRows(input.rows, input.otherOpts)]
    /\ input' = [input EXCEPT !.rows = rowsAfterCall(input.rows)]

\* the first call made again, directly or after the call in between
SecondCall ==
    /\ fn \in {"first", "between"}
    /\ fn' = "second"
    /\ output' = [rowsBefore |-> output.rowsBefore, first |-> output.first,
                  second |-> computeRows(input.rows, input.opts)]
    /\ input' = [input EXCEPT !.rows = rowsAfterCall(input.rows)]

NextTwoCalls == FirstCall \/ CallBetween \/ SecondCall

SpecTwoCalls == InitTwoCalls /\ [][NextTwoCalls]_vars

-----------------------------------------------------------------------------
(* the page's partition test and its 165 BCG totals, against groupForBn and
   the engine's 165_BCG Group Summary *)

\* page.tsx: the allowlist, OS/SS included
pageBCG_165_BNS == BCG_165_BNS \cup {OS_SS}

\* page.tsx normalizeBn: the four variants are compared one by one
pageCanonicalBn(s) ==
    IF s \in { <<"O","S","S","S">>, <<"O","S","-","S","S">>,
               <<"O","S"," ","&"," ","S","S">>,
               <<"O","S"," ","A","N","D"," ","S","S">> }
    THEN OS_SS
    ELSE s

pageNormalizeBn(raw) ==
    pageCanonicalBn(CollapseWhiteSpace(ToUpperCase(Trim(StringOf(Coalesce(raw, JStr(<<>>)))))))

\* is165BcgUnit looking the identifier up in the engine's allowlist, which
\* has no OS/SS entry
is165BcgUnitNoAlias(bn) == pageNormalizeBn(bn) \in BCG_165_BNS

is165BcgUnit(bn) == pageNormalizeBn(bn) \in pageBCG_165_BNS

\* computedRows.filter((r) => is165BcgUnit(r.bn))
RECURSIVE bcgComputedRowsOf(_)
bcgComputedRowsOf(computedRows) ==
    IF computedRows = <<>> THEN <<>>
    ELSE IF is165BcgUnit(Head(computedRows).bn)
         THEN <<Head(computedRows)>> \o bcgComputedRowsOf(Tail(computedRows))
         ELSE bcgComputedRowsOf(Tail(computedRows))

\* bcgTotals from the three sums on
bcgTotalsOf(onHand, remaining, destroyed) ==
    [ onHand         |-> onHand,
      remaining      |-> remaining,
      destroyed      |-> destroyed,
      combatPowerPct |-> IF Gt(onHand, Int2Num(0))
                         THEN Mul(Div(remaining, onHand), Int2Num(100))
                         ELSE Int2Num(0) ]

\* bcgTotals: reduce((s, r) => s + (Number(r.onHand) || 0), 0) and so on
bcgTotals(bcgRows) ==
    bcgTotalsOf(SumNum([i \in DOMAIN bcgRows |-> orZero(bcgRows[i].onHand)]),
                SumNum([i \in DOMAIN bcgRows |-> orZero(bcgRows[i].remaining)]),
                SumNum([i \in DOMAIN bcgRows |-> orZero(bcgRows[i].destroyed)]))

\* the page's render of computed: what it shows in the 165 BCG bar, next to
\* the Group Summaries of the same call
renderOf(computed) ==
    [ bcgTotals      |-> bcgTotals(bcgComputedRowsOf(computed.computedRows)),
      groupSummaries |-> computed.groupSummaries ]

\* the two partition tests applied to the first row's identifier
CallPartitionTests ==
    /\ fn = ""
    /\ fn' = "is165BcgUnit"
    /\ output' = [ page   |-> is165BcgUnit(input.rows[1].bn),
                   engine |-> groupForBn(input.rows[1].bn) ]
    /\ UNCHANGED input

\* the page's useMemo chain: computeRows(rows, { day, useAttrition,
\* manualWins: true }), then bcgComputedRows and bcgTotals
RenderBcgTotals ==
    \E d \in {1, 3}, u \in BOOLEAN :
        /\ fn = ""
        /\ fn' = "bcgTotals"
        /\ input' = [input EXCEPT !.opts = [given |-> TRUE, day |-> JInt(d),
                                            useAttrition |-> JBool(u),
                                            manualWins |-> JBool(TRUE)]]
        /\ output' = renderOf(computeRows(input'.rows, input'.opts))

NextPartition == CallPartitionTests \/ RenderBcgTotals

SpecPartition == InitIdentifiers /\ [][NextPartition]_vars

\* C28: is165BcgUnit(bn) is true exactly when groupForBn(bn) is 165_BCG, for
\* every identifier, and the page's 165 BCG totals are the on-hand, remaining,
\* destroyed and combat power of the engine's 165_BCG Group Summary for the
\* same rows.
PartitionTestsAgree ==
    /\ fn = "is165BcgUnit" => (output.page <=> output.engine = "165_BCG")
    /\ fn = "bcgTotals" =>
          /\ output.groupSummaries[1].group = "165_BCG"
          /\ \A k \in {"onHand", "remaining", "destroyed", "combatPowerPct"} :
                output.bcgTotals[k] = output.groupSummaries[1][k]

\* an alias spelling of OS/SS and a unit of the other group have been
\* rendered: the bar counts the alias row only, as the Group Summary does
AliasCountedInBarReached ==
    /\ fn = "bcgTotals"
    /\ input.rows[1].bn = JStr(<<"O","S"," ","&"," ","S","S">>)
    /\ input.rows[2].bn = JStr(<<"b"," ","c","o">>)
    /\ output.bcgTotals.onHand = Int2Num(10)
    /\ output.groupSummaries[1].onHand = Int2Num(10)
    /\ output.groupSummaries[2].onHand = Int2Num(12)

-----------------------------------------------------------------------------
(* partition accounting of computeRows (specification Spec) *)

\* the sum of field k over the records of seq
TotalOf(seq, k) == SumNum([i \in DOMAIN seq |-> seq[i][k]])

\* the Computed Rows that have an identifier
IdentifiedRows == SelectSeq(output.computedRows, LAMBDA r : r.bn.str # <<>>)

\* the number of Unit Summaries / Group Summaries the Computed Row r is counted in
UnitSummariesOf(r) ==
    Cardinality({j \in DOMAIN output.bnSummaries : output.bnSummaries[j].bn = r.bn.str})

GroupSummariesOf(r) ==
    Cardinality({j \in DOMAIN output.groupSummaries :
                    output.groupSummaries[j].group
                        = (IF r.bn.str = <<>> THEN "OTHER" ELSE groupForBn(r.bn))})

\* C29 as stated: every Computed Row is counted in exactly one Group Summary
\* (OTHER when its identifier is empty) and in exactly one Unit Summary, and
\* the totals of on-hand, remaining and destroyed over the Unit Summaries,
\* over the two Group Summaries and over the Computed Rows are equal.
PartitionAccountingAsStated ==
    Returned("computeRows") =>
        /\ \A i \in DOMAIN output.computedRows :
              /\ GroupSummariesOf(output.computedRows[i]) = 1
              /\ UnitSummariesOf(output.computedRows[i]) = 1
        /\ \A k \in {"onHand", "remaining", "destroyed"} :
              /\ TotalOf(output.groupSummaries, k) = TotalOf(output.computedRows, k)
              /\ TotalOf(output.bnSummaries, k) = TotalOf(output.computedRows, k)

\* C29 as amended: every Computed Row is counted in exactly one Group Summary;
\* a Computed Row with a non-empty identifier is counted in exactly one Unit
\* Summary and one with an empty identifier in none; the Group Summaries total
\* the Computed Rows, and the Unit Summaries total the Computed Rows that have
\* an identifier.
PartitionAccountingIdentified ==
    Returned("computeRows") =>
        /\ \A i \in DOMAIN output.computedRows :
              /\ GroupSummariesOf(output.computedRows[i]) = 1
              /\ UnitSummariesOf(output.computedRows[i])
                    = (IF output.computedRows[i].bn.str = <<>> THEN 0 ELSE 1)
        /\ \A k \in {"onHand", "remaining", "destroyed"} :
              /\ TotalOf(output.groupSummaries, k) = TotalOf(output.computedRows, k)
              /\ TotalOf(output.bnSummaries, k) = TotalOf(IdentifiedRows, k)

\* a row of 10 without identifier and a row of 10 of unit 1651 have come
\* back: 20 on hand over the groups, 10 over the units
UnidentifiedRowInOtherReached ==
    /\ Returned("computeRows")
    /\ Len(output.computedRows) = 2
    /\ output.computedRows[1].bn = JStr(<<>>)
    /\ output.computedRows[1].onHand = Int2Num(10)
    /\ output.computedRows[2].bn = JStr(<<"1","6","5","1">>)
    /\ output.computedRows[2].onHand = Int2Num(10)
    /\ output.groupSummaries[2].onHand = Int2Num(10)
    /\ TotalOf(output.groupSummaries, "onHand") = Int2Num(20)
    /\ TotalOf(output.bnSummaries, "onHand") = Int2Num(10)

-----------------------------------------------------------------------------
(* the page's day and rows under its editing operations: the load on mount,
   restore, the day slider, row and daily-loss edits, add, delete, clear and
   the Excel import, whose file is read while other operations go on *)

\* at most MaxOps operations of the user are followed
MaxOps == 2

\* crypto.randomUUID(): the k-th identifier drawn
uuid(k) == JStr(<<"u">> \o IntDigits(k))

\* newRow(day), id being the identifier drawn
newRow(day, id) ==
    [ id                |-> id,
      bn                |-> JStr(<<>>),
      equipmentType     |-> JStr(<<>>),
      onHand            |-> JInt(0),
      dailyAttritionPct |-> JNum(inferDailyAttritionPct(JInt(0), Counts(0, 0, 0, 0, 0), JNum(day))),
      destroyedByDay    |-> Counts(0, 0, 0, 0, 0),
      destroyedManual   |-> JUndefined ]

\* updateRow's prev.map: { ...r, ...patch }, then the losses normalized and
\* the rate inferred at the day of the render
updateRow(rows, id, patch, day) ==
    [i \in DOMAIN rows |->
        IF rows[i].id # id THEN rows[i]
        ELSE recalcRow([rows[i] EXCEPT ![patch.field] = patch.value], day)]

\* byDay[idx] = Math.max(0, Math.floor(Number(value) || 0))
lossesWith(byDay, idx, value) ==
    JArr([k \in 1..5 |->
             IF k = idx + 1
             THEN JNum(MathMax(Int2Num(0), MathFloor(NumberOrZero(value))))
             ELSE JNum(byDay[k])])

\* updateDestroyedByDay's prev.map
updateDestroyedByDay(rows, id, idx, value, day) ==
    [i \in DOMAIN rows |->
        IF rows[i].id # id THEN rows[i]
        ELSE pageRowAt(rows[i], rows[i].onHand,
                       lossesWith(normalizeDestroyedByDayPage(rows[i].destroyedByDay), idx, value),
                       day)]

\* String.prototype.toLowerCase
ToLowerCase(s) ==
    [i \in DOMAIN s |->
        IF \E k \in DOMAIN UpperCase : UpperCase[k] = s[i]
        THEN LowerCase[CHOOSE k \in DOMAIN UpperCase : UpperCase[k] = s[i]]
        ELSE s[i]]

\* file.name.toLowerCase().endsWith(".xlsx")
isXlsx(name) ==
    /\ Len(name) >= 5
    /\ SubSeq(ToLowerCase(name), Len(name) - 4, Len(name)) = <<".","x","l","s","x">>

\* String(getCell(...) ?? "").trim()
cellText(v) == Trim(StringOf(Coalesce(v, JStr(<<>>))))

\* Number(getCell(...) ?? 0) || 0
cellNumber(v) == NumberOrZero(Coalesce(v, JInt(0)))

\* dailySum > 0 ? [d1, d2, d3, d4, d5] : [destroyedLegacy, 0, 0, 0, 0]
importedLosses(d, destroyedLegacy) ==
    IF Gt(SumNum(d), Int2Num(0))
    THEN JArr([k \in 1..5 |-> JNum(d[k])])
    ELSE JArr(<<JNum(destroyedLegacy), JInt(0), JInt(0), JInt(0), JInt(0)>>)

\* the TrackerRow importExcel makes of the sheet row r
importedRow(r, id, day) ==
    pageRowAt([id |-> id, bn |-> JStr(cellText(r.bn)),
               equipmentType |-> JStr(cellText(r.equipmentType)),
               destroyedManual |-> JUndefined],
              JNum(cellNumber(r.onHand)),
              numbersOf(normalizeDestroyedByDayPage(
                  importedLosses([k \in 1..5 |-> cellNumber(r.d[k])],
                                 cellNumber(r.destroyed)))),
              day)

\* json.map(...).filter(Boolean): rows with neither unit nor equipment are
\* dropped; k identifiers have been drawn before
RECURSIVE parsedRows(_, _, _)
parsedRows(json, k, day) ==
    IF json = <<>> THEN <<>>
    ELSE IF cellText(Head(json).bn) = <<>> /\ cellText(Head(json).equipmentType) = <<>>
         THEN parsedRows(Tail(json), k, day)
         ELSE <<importedRow(Head(json), uuid(k + 1), day)>> \o parsedRows(Tail(json), k + 1, day)

\* rowsAfterImport appending in both modes
rowsAfterImportAppending(prev, parsed, mode) == prev \o parsed

\* setRows((prev) => (mode === "replace" ? parsed : [...prev, ...parsed])),
\* nothing being set when parsed is empty
rowsAfterImport(prev, parsed, mode) ==
    IF parsed = <<>> THEN prev
    ELSE IF mode = "replace" THEN parsed
    ELSE prev \o parsed

\* a row of a sheet: its cells by column ("" where the cell is empty)
SheetRow(bn, equipmentType, onHand, d1, d4, destroyed) ==
    [ bn |-> bn, equipmentType |-> equipmentType, onHand |-> onHand,
      d |-> <<d1, JStr(<<>>), JStr(<<>>), d4, JStr(<<>>)>>, destroyed |-> destroyed ]

\* sheets: empty; a blank row only; a row losing everything on day 4; a
\* legacy row between a blank row and a row with both daily and legacy
\* losses; a row whose daily losses sum to less than 0 beside a legacy loss
SheetValues ==
    { <<>>,
      << SheetRow(JStr(<<" ">>), JStr(<<>>), JInt(5), JInt(1), JStr(<<>>), JStr(<<>>)) >>,
      << SheetRow(JInt(1651), JStr(<<"T">>), JInt(10), JStr(<<>>), JInt(10), JStr(<<>>)) >>,
      << SheetRow(JStr(<<" ","b"," ","c","o">>), JStr(<<>>), JStr(<<"1","0">>),
                  JStr(<<>>), JStr(<<>>), JInt(10)),
         SheetRow(JStr(<<>>), JStr(<<" ">>), JInt(5), JInt(1), JStr(<<>>), JStr(<<>>)),
         SheetRow(JStr(<<>>), JStr(<<"T">>), JInt(10), JInt(10), JStr(<<>>), JInt(10)) >>,
      << SheetRow(JInt(1652), JStr(<<"T">>), JInt(10), JInt(-10), JStr(<<>>), JInt(10)) >> }

FileValues ==
    [name : {<<"a",".","x","l","s","x">>}, json : SheetValues]
    \cup [name : {<<"A",".","X","L","S","X">>, <<"a",".","c","s","v">>},
          json : {s \in SheetValues : Len(s) = 1 /\ s[1].bn = JInt(1651)}]

\* stored states: none; day 4 with a row whose stored rate is stale; day "2"
\* with modelling off and no rows
StoredEarlier ==
    [given |-> TRUE, day |-> JInt(4), useAttrition |-> JUndefined,
     rows |-> JArr(<< Row(JStr(<<"b"," ","c","o">>),
                          [onHand |-> JInt(10), dailyAttritionPct |-> JInt(30),
                           destroyedByDay |-> Counts(0, 0, 0, 10, 0),
                           destroyedManual |-> JUndefined]) >>)]

EditStateValues ==
    { NoState,
      StoredEarlier,
      [given |-> TRUE, day |-> JStr(<<"2">>), useAttrition |-> JBool(FALSE),
       rows |-> JArr(<<>>)] }

\* the ids of the page's rows
RowIds(page) == {page.rows[i].id : i \in DOMAIN page.rows}

InitEdits ==
    /\ input = <<>>
    /\ fn = ""
    /\ output = [page |-> DEFAULT_STATE, imports |-> <<>>, loaded |-> FALSE, ops |-> 0,
                 uuids |-> 0]

\* the load on mount comes back with the stored state, once
LoadStoredState ==
    \E st \in EditStateValues :
        /\ ~output.loaded
        /\ input' = [state |-> st, page |-> output.page]
        /\ fn' = "load"
        /\ output' = [output EXCEPT !.loaded = TRUE,
                                    !.page = IF st.given THEN normalizeLoadedState(st) ELSE @]

RestoreSnapshot ==
    \E st \in EditStateValues :
        /\ output.ops < MaxOps
        /\ input' = [state |-> st, page |-> output.page]
        /\ fn' = "restoreFromHistory"
        /\ output' = [output EXCEPT !.ops = @ + 1, !.page = normalizeLoadedState(st)]

ChangeDay ==
    \E v \in {JStr(<<"1">>), JStr(<<"4">>)} :
        /\ output.ops < MaxOps
        /\ RowsInDomain(output.page.rows, clampInt(v, Int2Num(1), Int2Num(5)))
        /\ input' = [nextDay |-> v, page |-> output.page]
        /\ fn' = "setDayAndRecalc"
        /\ output' = [output EXCEPT !.ops = @ + 1, !.page = setDayAndRecalc(@, v)]

\* the unit, equipment and on-hand inputs of a row
EditRow ==
    \E id \in RowIds(output.page),
       patch \in { [field |-> "bn", value |-> JStr(<<"o","s","s","s">>)],
                   [field |-> "onHand", value |-> JInt(10)] } :
        /\ output.ops < MaxOps
        /\ RowsInDomain(updateRow(output.page.rows, id, patch, output.page.day),
                        output.page.day)
        /\ input' = [id |-> id, patch |-> patch, page |-> output.page]
        /\ fn' = "updateRow"
        /\ output' = [output EXCEPT !.ops = @ + 1,
                                    !.page.rows = updateRow(@, id, patch, output.page.day)]

\* a daily-loss input of a row
EditDailyLoss ==
    \E id \in RowIds(output.page), e \in {<<0, JInt(0)>>, <<3, JInt(10)>>, <<0, JNum(NaN)>>} :
        /\ output.ops < MaxOps
        /\ RowsInDomain(updateDestroyedByDay(output.page.rows, id, e[1], e[2], output.page.day),
                        output.page.day)
        /\ input' = [id |-> id, idx |-> e[1], value |-> e[2], page |-> output.page]
        /\ fn' = "updateDestroyedByDay"
        /\ output' = [output EXCEPT
                         !.ops = @ + 1,
                         !.page.rows = updateDestroyedByDay(@, id, e[1], e[2], output.page.day)]

\* + Add Row
AddRow ==
    /\ output.ops < MaxOps
    /\ input' = [page |-> output.page]
    /\ fn' = "newRow"
    /\ output' = [output EXCEPT
                     !.ops = @ + 1,
                     !.uuids = @ + 1,
                     !.page.rows = Append(@, newRow(output.page.day, uuid(output.uuids + 1)))]

DeleteRow ==
    \E id \in RowIds(output.page) :
        /\ output.ops < MaxOps
        /\ input' = [id |-> id, page |-> output.page]
        /\ fn' = "deleteRow"
        /\ output' = [output EXCEPT !.ops = @ + 1,
                                    !.page.rows = SelectSeq(@, LAMBDA r : r.id # id)]

\* Clear
ClearRows ==
    /\ output.ops < MaxOps
    /\ input' = [page |-> output.page]
    /\ fn' = "clear"
    /\ output' = [output EXCEPT !.ops = @ + 1, !.page.rows = <<>>]

\* importExcel up to its await: a file that is no .xlsx is turned away; of any
\* other the read is started, in the render of the day shown
StartImport ==
    \E file \in FileValues, mode \in {"replace", "append"} :
        /\ output.ops < MaxOps
        /\ input' = [file |-> file, mode |-> mode, page |-> output.page]
        /\ fn' = IF isXlsx(file.name) THEN "importExcel:read" ELSE "importExcel"
        /\ output' = [output EXCEPT
                         !.ops = @ + 1,
                         !.imports = IF isXlsx(file.name)
                                     THEN Append(@, [file |-> file, mode |-> mode,
                                                     day |-> output.page.day])
                                     ELSE @]

\* importExcel after its await: the sheet is parsed with the day of the
\* render that started the import, and the rows are set
FinishImport ==
    \E i \in DOMAIN output.imports :
        /\ RowsInDomain(parsedRows(output.imports[i].file.json, output.uuids,
                                   output.imports[i].day), output.imports[i].day)
        /\ input' = [file |-> output.imports[i].file, mode |-> output.imports[i].mode,
                     page |-> output.page]
        /\ fn' = "importExcel"
        /\ output' = [output EXCEPT
                         !.imports = SubSeq(@, 1, i - 1) \o SubSeq(@, i + 1, Len(@)),
                         !.uuids = @ + Len(output.imports[i].file.json),
                         !.page.rows = rowsAfterImport(@,
                                           parsedRows(output.imports[i].file.json, output.uuids,
                                                      output.imports[i].day),
                                           output.imports[i].mode)]

NextEdits ==
    \/ LoadStoredState \/ RestoreSnapshot \/ ChangeDay \/ EditRow \/ EditDailyLoss
    \/ AddRow \/ DeleteRow \/ ClearRows \/ StartImport \/ FinishImport

SpecEdits == InitEdits /\ [][NextEdits]_vars

\* the rate of every row of the page is the one inferred from its on-hand
\* count and daily losses at the day shown
RatesInferredAtDay(page) ==
    \A i \in DOMAIN page.rows :
        page.rows[i].dailyAttritionPct =
            JNum(inferDailyAttritionPct(page.rows[i].onHand, page.rows[i].destroyedByDay,
                                        JNum(page.day)))

\* C22: after any sequence and interleaving of the page's operations (load,
\* restore, day change, row edit, daily-loss edit, add row, Excel import in
\* either mode), every row's dailyAttritionPct equals
\* inferDailyAttritionPct(row.onHand, row.destroyedByDay, current day)
RowRatesFollowDay ==
    RowsInDomain(output.page.rows, output.page.day) => RatesInferredAtDay(output.page)

\* the sheet rows that have a unit or an equipment type
UsableSheetRows(json) ==
    SelectSeq(json, LAMBDA r : cellText(r.bn) # <<>> \/ cellText(r.equipmentType) # <<>>)

\* the sum of the five daily columns of a sheet row
DailyColumnsSum(r) == SumNum([k \in 1..5 |-> cellNumber(r.d[k])])

\* the page row holds the sheet row: its unit and equipment trimmed, its
\* on-hand count, and as losses the legacy column on day 1 when legacy holds,
\* the daily columns otherwise
HoldsSheetRow(row, r, legacy) ==
    /\ row.bn = JStr(cellText(r.bn))
    /\ row.equipmentType = JStr(cellText(r.equipmentType))
    /\ row.onHand = JNum(cellNumber(r.onHand))
    /\ row.destroyedByDay =
          numbersOf(normalizeDestroyedByDayPage(
              IF legacy
              THEN JArr(<<JNum(cellNumber(r.destroyed)), JInt(0), JInt(0), JInt(0), JInt(0)>>)
              ELSE JArr([k \in 1..5 |-> JNum(cellNumber(r.d[k]))])))

\* after holds the rows of before ahead of one row per usable sheet row
RowsThenSheet(after, before, usable, legacyAtZeroOnly) ==
    /\ Len(after) = Len(before) + Len(usable)
    /\ SubSeq(after, 1, Len(before)) = before
    /\ \A i \in DOMAIN usable :
          HoldsSheetRow(after[Len(before) + i], usable[i],
                        IF legacyAtZeroOnly
                        THEN DailyColumnsSum(usable[i]) = Int2Num(0)
                        ELSE ~Gt(DailyColumnsSum(usable[i]), Int2Num(0)))

ImportedAsClaimed(legacyAtZeroOnly) ==
    fn = "importExcel" =>
        IF ~isXlsx(input.file.name) \/ UsableSheetRows(input.file.json) = <<>>
        THEN output.page.rows = input.page.rows
        ELSE RowsThenSheet(output.page.rows,
                           IF input.mode = "replace" THEN <<>> ELSE input.page.rows,
                           UsableSheetRows(input.file.json), legacyAtZeroOnly)

\* C30, as stated: an import leaves the rows unchanged when the file is not
\* .xlsx or has no usable row; otherwise "replace" sets the rows to the parsed
\* rows and "append" keeps the existing rows in order ahead of them; sheet
\* rows with unit and equipment both blank are dropped, and the legacy
\* Destroyed column is the day-1 loss only when the daily columns sum to 0
ImportAsStated == ImportedAsClaimed(TRUE)

\* C30, amended: the same, the legacy Destroyed column being the day-1 loss
\* whenever the daily columns do not sum to more than 0
ImportLegacyUnlessPositive == ImportedAsClaimed(FALSE)

\* an append to existing rows of a sheet with a blank row, a legacy row and a
\* row with both kinds of losses has completed
AppendedLegacySheetReached ==
    /\ fn = "importExcel"
    /\ input.mode = "append"
    /\ input.page.rows # <<>>
    /\ Len(input.file.json) = 3
    /\ Len(output.page.rows) = Len(input.page.rows) + 2

-----------------------------------------------------------------------------
(* the page and its store: the load on mount, the debounced autosave with its
   throttled history snapshots, Save and Restore, as steps between the awaits
   of their handlers.  A change of the page's state and the effects React
   runs after it are one step.  The clock counts milliseconds and starts at
   60000, which is as far from the initial lastHistoryWriteAtRef of 0 as any
   Date.now() is for the throttle; it advances when the user waits a minute
   before an edit or a Save.  The variable input holds the request on the
   answer of an upsert or a history insert and is empty otherwise *)

\* at most MaxClicks operations of the user are followed
MaxClicks == 1

\* the state as the store keeps it (JSON)
stateJson(page) ==
    [given |-> TRUE, day |-> JNum(page.day), useAttrition |-> JBool(page.useAttrition),
     rows |-> JArr(page.rows)]

\* a clearTimeout that clears nothing
clearTimeoutIgnored(timers, id) == timers

\* clearTimeout(id)
clearTimeout(timers, id) == SelectSeq(timers, LAMBDA t : t.id # id)

\* the cleanup the autosave effect returned
autosaveCleanup(a) == [a EXCEPT !.timers = clearTimeout(@, a.saveTimer)]

\* the autosave effect up to its setTimeout: nothing when not signed in,
\* else the pending timer is cleared and one is set that carries the state of
\* this render
autosaveEffect(a) ==
    IF ~a.isAuthed THEN a
    ELSE [a EXCEPT !.timers = Append(clearTimeout(@, a.saveTimer),
                                     [id |-> a.ids + 1, state |-> a.page]),
                   !.saveTimer = a.ids + 1,
                   !.ids = @ + 1]

\* a render after a change of isAuthed, day, useAttrition or rows: the
\* cleanup of the effect's last run, if it returned one, then the effect
committed(a, wasAuthed) ==
    IF ~a.mounted THEN a
    ELSE autosaveEffect(IF wasAuthed THEN autosaveCleanup(a) ELSE a)

\* nowMs - lastHistoryWriteAtRef.current >= 60_000
historyDue(nowMs, lastHistoryWriteAt) == nowMs - lastHistoryWriteAt >= 60000

\* a request to the store that a handler is waiting on; the requests in
\* flight are a bag of these
Request(origin, state) ==
    [origin |-> origin, state |-> state, pc |-> "upsert", nowMs |-> 0]

\* a snapshot of the page as it is when the snapshot is written
snapshotOfPage(r, page) == page

\* the state writeHistorySnapshot is given by the handler of request r
snapshotState(r, page) == r.state

\* the time the user lets pass before an edit or a Save
WaitValues == {0, 60000}

InitAutosave ==
    /\ input = <<>>
    /\ fn = ""
    /\ \E st \in {NoState, StoredEarlier} :
          output = [ now |-> 60000, ops |-> 0, page |-> DEFAULT_STATE,
                     isAuthed |-> FALSE, mounted |-> TRUE, load |-> "getUser",
                     timers |-> <<>>, saveTimer |-> 0, ids |-> 0, requests |-> EmptyBag,
                     stored |-> st, stored0 |-> st, history |-> <<>>,
                     lastHistoryWriteAt |-> 0, rejected |-> FALSE, saves |-> 0 ]

\* the load on mount: getUser returns
AuthReturns ==
    \E authed \in BOOLEAN :
        /\ output.load = "getUser"
        /\ input' = <<>>
        /\ fn' = "load:getUser"
        /\ output' = IF authed
                     THEN committed([output EXCEPT !.isAuthed = output.mounted,
                                                   !.load = "select"], FALSE)
                     ELSE [output EXCEPT !.load = "redirected", !.mounted = FALSE]

\* the load on mount: the select of global_tracker_state returns
SelectReturns ==
    \E ok \in BOOLEAN :
        /\ output.load = "select"
        /\ input' = <<>>
        /\ fn' = "load:select"
        /\ output' =
              IF ~ok THEN [output EXCEPT !.load = "failed"]
              ELSE IF ~output.stored.given THEN [output EXCEPT !.load = "none"]
              ELSE IF ~output.mounted THEN [output EXCEPT !.load = "applied"]
              ELSE committed([output EXCEPT !.load = "applied",
                                            !.page = normalizeLoadedState(output.stored)],
                             TRUE)

\* the modelling checkbox
EditUseAttrition ==
    \E wait \in WaitValues :
        /\ output.mounted
        /\ output.ops < MaxClicks
        /\ input' = <<>>
        /\ fn' = "setUseAttrition"
        /\ output' = committed([output EXCEPT !.ops = @ + 1,
                                              !.now = @ + wait,
                                              !.page.useAttrition = ~@],
                               output.isAuthed)

\* saveNow up to the upsert of persistGlobalState; the button is disabled
\* when not signed in
SaveNow ==
    \E wait \in WaitValues :
        /\ output.mounted
        /\ output.isAuthed
        /\ output.ops < MaxClicks
        /\ input' = <<>>
        /\ fn' = "saveNow"
        /\ output' = [output EXCEPT
                         !.ops = @ + 1,
                         !.now = @ + wait,
                         !.saves = @ + 1,
                         !.requests = @ (+) SetToBag({Request("manual", output.page)})]

\* restoreFromHistory of a snapshot of the history panel, up to the upsert
RestoreAndPersist ==
    \E k \in DOMAIN output.history :
        /\ output.mounted
        /\ output.isAuthed
        /\ output.ops < MaxClicks
        /\ input' = <<>>
        /\ fn' = "restoreFromHistory"
        /\ output' = committed(
               [output EXCEPT
                   !.ops = @ + 1,
                   !.saves = @ + 1,
                   !.page = normalizeLoadedState(output.history[k].state),
                   !.requests = @ (+) SetToBag({Request("restore",
                                       normalizeLoadedState(output.history[k].state))})],
               TRUE)

\* the page goes away
Unmount ==
    /\ output.mounted
    /\ output.ops < MaxClicks
    /\ input' = <<>>
    /\ fn' = "unmount"
    /\ output' = IF output.isAuthed
                 THEN autosaveCleanup([output EXCEPT !.ops = @ + 1, !.mounted = FALSE])
                 ELSE [output EXCEPT !.ops = @ + 1, !.mounted = FALSE]

\* a timer of the autosave effect fires: its callback runs up to the upsert
TimerFires ==
    \E i \in DOMAIN output.timers :
        /\ input' = <<>>
        /\ fn' = "autosave"
        /\ output' = [output EXCEPT
                         !.timers = SubSeq(@, 1, i - 1) \o SubSeq(@, i + 1, Len(@)),
                         !.requests = @ (+) SetToBag({Request("autosave",
                                                                output.timers[i].state)})]

\* a request after its upsert, which was taken or rejected: the autosave
\* callback gives up on a rejection and goes on to a snapshot when one is
\* due; Save and Restore go on to their snapshot either way
afterUpsert(r, ok, now, lastHistoryWriteAt) ==
    IF r.origin = "autosave" /\ ~(ok /\ historyDue(now, lastHistoryWriteAt))
    THEN EmptyBag
    ELSE SetToBag({[r EXCEPT !.pc = "insert", !.nowMs = now]})

\* the upsert of a request is answered
UpsertReturns ==
    \E r \in BagToSet(output.requests), ok \in BOOLEAN :
        /\ r.pc = "upsert"
        /\ input' = [request |-> r, ok |-> ok]
        /\ fn' = "upsert"
        /\ output' = [output EXCEPT
                         !.stored = IF ok THEN stateJson(r.state) ELSE @,
                         !.rejected = @ \/ ~ok,
                         !.requests = (@ (-) SetToBag({r}))
                             (+) afterUpsert(r, ok, output.now, output.lastHistoryWriteAt)]

\* the value the handler of request r puts in lastHistoryWriteAtRef
historyStamp(r, now) == IF r.origin = "autosave" THEN r.nowMs ELSE now

\* the insert into the history is answered, and the handler stamps the write
InsertReturns ==
    \E r \in BagToSet(output.requests) :
        /\ r.pc = "insert"
        /\ input' = [request |-> r]
        /\ fn' = "writeHistorySnapshot"
        /\ output' = [output EXCEPT
                         !.history = Append(@, [state |-> stateJson(snapshotState(r, output.page)),
                                                origin |-> r.origin,
                                                at |-> historyStamp(r, output.now)]),
                         !.lastHistoryWriteAt = historyStamp(r, output.now),
                         !.requests = @ (-) SetToBag({r})]

NextAutosave ==
    \/ AuthReturns \/ SelectReturns \/ EditUseAttrition \/ SaveNow
    \/ RestoreAndPersist \/ Unmount \/ TimerFires \/ UpsertReturns \/ InsertReturns

SpecAutosave == InitAutosave /\ [][NextAutosave]_vars

\* the step just taken changed day, useAttrition or rows of the mounted page
PageJustChanged ==
    /\ output.mounted
    /\ \/ fn \in {"setUseAttrition", "restoreFromHistory"}
       \/ fn = "load:select" /\ output.load = "applied"

\* C27: at most one autosave timer is pending; every change of day,
\* useAttrition or rows cancels the pending timer and schedules a new one, so
\* a pending timer carries the page's latest state; no timer is pending when
\* not signed in, and none after unmount
AutosaveDebounced ==
    /\ Len(output.timers) <= 1
    /\ \A i \in DOMAIN output.timers :
          /\ output.timers[i].state = output.page
          /\ output.timers[i].id = output.saveTimer
    /\ ~output.isAuthed => output.timers = <<>>
    /\ ~output.mounted => output.timers = <<>>
    /\ PageJustChanged /\ output.isAuthed =>
          output.timers = <<[id |-> output.ids, state |-> output.page]>>

\* the page was edited while the timer set on sign-in was pending: no request
\* has gone out, and the second timer drawn is the one pending
EditedWhileTimerPendingReached ==
    /\ fn = "setUseAttrition"
    /\ output.isAuthed
    /\ output.ids = 2
    /\ output.load = "select"
    /\ output.requests = EmptyBag
    /\ ~output.rejected
    /\ output.stored = output.stored0
    /\ Len(output.timers) = 1

\* the answered steps of the load on mount, of timers and of requests happen
SpecAutosaveFair ==
    /\ SpecAutosave
    /\ WF_vars(AuthReturns) /\ WF_vars(SelectReturns) /\ WF_vars(TimerFires)
    /\ WF_vars(UpsertReturns) /\ WF_vars(InsertReturns)

\* C23: no two history snapshots of which the later was written by the
\* autosave are less than 60 000 ms apart, whatever wrote the earlier one and
\* however the autosave callbacks overlap
AutosaveSnapshotsThrottled ==
    \A i, j \in DOMAIN output.history :
        i < j /\ output.history[j].origin = "autosave" =>
            output.history[j].at - output.history[i].at >= 60000

\* Save and Restore snapshots in the history, and their requests in flight
ManualSnapshots == SelectSeq(output.history, LAMBDA h : h.origin # "autosave")

ManualRequests == {r \in BagToSet(output.requests) : r.origin # "autosave"}

ManualInFlight == BagCardinality([r \in ManualRequests |-> output.requests[r]])

NoUpsertBeforeLoad ==
    output.load \in {"getUser", "select", "failed"} /\ output.saves = 0 =>
        /\ output.requests = EmptyBag
        /\ ~output.rejected
        /\ output.stored = output.stored0

\* signed in, mounted, and no upsert was rejected
UpsertsIntact == output.isAuthed /\ output.mounted /\ ~output.rejected

\* C26: when the user is signed in, edits stop and every upsert succeeds, the
\* stored state eventually equals the page's latest state and stays equal
EventuallyPersisted ==
    <>[](UpsertsIntact => output.stored = stateJson(output.page))

====
